---- MODULE Spec2Model ----
(***************************************************************************)
(* Frequency-tuning subsystem of the SCuM port of OpenWSN: the tuning-code *)
(* algebra, the sweep iterator, the channel calibration engine, the        *)
(* channel registry and the tuning feedback.                               *)
(*                                                                         *)
(* The sources hold two builds of tuning.c that differ in the empirical    *)
(* constants and in the sweep iterator: the one stored after the channel   *)
(* header in bsp/boards/scum/channel.h, and the one in unnamed/part_004.   *)
(* The variable build selects the build; every operator below reads it.    *)
(***************************************************************************)
EXTENDS Integers, Sequences, FiniteSets, TLC

VARIABLES
    build,        \* which build of tuning.c is compiled in
    input,        \* algebra: the tuning code the calls started from
    tuning_code,  \* algebra / sweep: the tuning_code_t the calls mutate
    num_codes,    \* algebra: the uint8_t argument of the first call
    num_codes_2,  \* algebra: the uint8_t argument of the second call
    applied,      \* algebra: the calls made so far, in order
    sweep_config, \* sweep: the tuning_sweep_config_t of the sweep
    visited,      \* sweep: the codes the sweep has taken, in order
    board_info,   \* engine: the coarse and mid codes of board_info.h
    g_channel_cal_channel_infos,
    g_channel_cal_initial_rx_sweep_finished,
    g_channel_cal_num_tx_failures,
    g_channel_cal_num_channels_rx_calibrated,
    g_channel_cal_num_channels_tx_calibrated,
    timer_scheduled, \* engine: the calibration timer is waiting to fire
    stale_timer_scheduled, \* engine: a timer of an earlier initialisation is
    radio_tuning_code, \* engine: the code last given to tuning_tune_radio
    last_call,    \* engine: the last call made to the engine
    num_calls,    \* engine: the number of calls made to the engine
    g_channel_tx_tuning_codes,
    g_channel_rx_tuning_codes,
    g_tuning_feedback_channel_infos,
    g_tuning_feedback_if_estimates, \* feedback: the statics of tuning_feedback.c
    if_estimate,  \* feedback: the argument of the last tuning_feedback_adjust_rx
    stream,       \* feedback: the IF estimates fed to one channel so far
    channel_history, \* registry: the last call and the code last set per entry
    g_channel_cal_state,   \* peer: the statics of the OpenMote coordinator
    g_channel_cal_channel,
    g_channel_cal_rx_packet,
    g_channel_cal_rx_packet_crc,
    g_channel_cal_scum_tx_tuning_codes,
    g_channel_cal_scum_tx_tuning_codes_for_channel,
    g_channel_cal_scum_tx_num_received_tuning_codes_for_channel,
    g_smart_stake_rx_packet,
    end_frame_cb, \* peer: the end-frame callback registered with the radio
    sctimer,      \* peer: the timeout the timer compare is armed with
    peer_step,    \* peer: the last step taken and what the main loop read
    protocol,     \* peer: the (step, channel) pairs gone through, in order
    num_frames,   \* peer: the number of end-frame events so far
    app_vars,     \* radio app: the fields of app_vars the main loop reads
    main_pc,      \* radio app: the position of mote_main in its loop
    main_flags,   \* radio app: the flags loaded by a pending flags &= ~X
    app_radio,    \* radio app: what the radio is doing
    compare_armed, \* radio app: the timer compare is set and has not fired
    app_step,     \* radio app: the last step taken
    app_pending   \* radio app: flags set by a callback and not yet handled

algebra_vars == <<input, num_codes, num_codes_2, applied>>

sweep_vars == <<sweep_config, visited>>

cal_globals ==
    <<g_channel_cal_channel_infos,
      g_channel_cal_initial_rx_sweep_finished,
      g_channel_cal_num_tx_failures,
      g_channel_cal_num_channels_rx_calibrated,
      g_channel_cal_num_channels_tx_calibrated>>

cal_vars ==
    <<board_info, cal_globals, timer_scheduled, stale_timer_scheduled,
      radio_tuning_code, last_call, num_calls>>

channel_vars == <<g_channel_tx_tuning_codes, g_channel_rx_tuning_codes>>

feedback_vars ==
    <<channel_vars, g_tuning_feedback_channel_infos,
      g_tuning_feedback_if_estimates, if_estimate, stream, channel_history>>

peer_globals ==
    <<g_channel_cal_state, g_channel_cal_channel, g_channel_cal_rx_packet,
      g_channel_cal_rx_packet_crc, g_channel_cal_scum_tx_tuning_codes,
      g_channel_cal_scum_tx_tuning_codes_for_channel,
      g_channel_cal_scum_tx_num_received_tuning_codes_for_channel,
      g_smart_stake_rx_packet>>

peer_vars ==
    <<peer_globals, end_frame_cb, sctimer, peer_step, protocol, num_frames>>

radio_app_vars ==
    <<app_vars, main_pc, main_flags, app_radio, compare_armed, app_step,
      app_pending>>

\* The programs other than the SCuM firmware.
program_vars == <<peer_vars, radio_app_vars>>

firmware_vars ==
    <<build, tuning_code, algebra_vars, sweep_vars, cal_vars, feedback_vars>>

vars ==
    <<build, tuning_code, algebra_vars, sweep_vars, cal_vars, feedback_vars,
      program_vars>>

----------------------------------------------------------------------------
(* Bounds of the model. *)

\* Coarse codes explored by the algebra: those within CoarseMargin of either
\* end of the code space, 0..CoarseMargin and (31-CoarseMargin)..31.
CoarseMargin == 1

\* Fine codes explored where only mid and coarse are operated on: 0..FineSpan.
FineSpan == 0

\* Sweep configurations explored: each range starts at 0 or ends at 31 and
\* spans at most this many codes beyond its start.
MaxCoarseRange == 1

MaxMidRange == 4

MaxFineRange == 1

\* Number of codes a sweep is followed for.
MaxSweepSteps == 24

\* Number of calls made to the calibration engine.
MaxCalls == 4

\* Number of timer expirations an initial RX sweep is followed for.
MaxTimerExpirations == 52

\* Number of IF estimates a stream fed to the tuning feedback is followed for.
MaxStreamLength == 12

\* End-frame events the radio of the peer raises in one run.
MaxPeerFrames == 3

\* Length of the lists of recorded codes the averaging is applied to.
MaxRecordedCodes == 5

----------------------------------------------------------------------------
(* tuning.h *)

TUNING_MIN_CODE == 0

TUNING_MAX_CODE == 31

\* uint8_t: the value an int expression has once stored in a uint8_t field.
U8(x) == x % 256

Builds == {"channel_h", "part_004"}

TuningCode(c, m, f) == [coarse |-> c, mid |-> m, fine |-> f]

\* A tuning code with every field in [TUNING_MIN_CODE, TUNING_MAX_CODE].
ValidCode(tc) ==
    /\ tc.coarse \in TUNING_MIN_CODE..TUNING_MAX_CODE
    /\ tc.mid \in TUNING_MIN_CODE..TUNING_MAX_CODE
    /\ tc.fine \in TUNING_MIN_CODE..TUNING_MAX_CODE

----------------------------------------------------------------------------
(* tuning.c: the empirical constants *)

TUNING_NUM_MID_CODES_BETWEEN_CHANNELS ==
    IF build = "channel_h" THEN 6 ELSE 5

TUNING_NUM_FINE_CODES_PER_MID_CODE_TRANSITION == 9

TUNING_NUM_MID_CODES_PER_COARSE_CODE_TRANSITION ==
    IF build = "channel_h" THEN 13 ELSE 14

TUNING_NUM_MID_CODES_BETWEEN_RX_AND_TX == 1

----------------------------------------------------------------------------
(* tuning.c: the algebra. Conditions are evaluated in int, as C promotes   *)
(* the uint8_t operands; every store into a field truncates to 8 bits.     *)

tuning_increment_mid_codes(tc, num_mid_codes) ==
    IF tc.mid + num_mid_codes > TUNING_MAX_CODE
    THEN [tc EXCEPT
            !.mid = U8(tc.mid + TUNING_NUM_MID_CODES_PER_COARSE_CODE_TRANSITION
                       + num_mid_codes - TUNING_MAX_CODE - 1),
            !.coarse = U8(tc.coarse + 1)]
    ELSE [tc EXCEPT !.mid = U8(tc.mid + num_mid_codes)]

\* Mutant: the borrow is taken one code too early (<= for <).
tuning_decrement_mid_codes_early_borrow(tc, num_mid_codes) ==
    IF tc.mid <= TUNING_MIN_CODE + num_mid_codes
    THEN [tc EXCEPT
            !.mid = U8(tc.mid + TUNING_MAX_CODE + 1
                       - TUNING_NUM_MID_CODES_PER_COARSE_CODE_TRANSITION
                       - num_mid_codes),
            !.coarse = U8(tc.coarse - 1)]
    ELSE [tc EXCEPT !.mid = U8(tc.mid - num_mid_codes)]

tuning_decrement_mid_codes(tc, num_mid_codes) ==
    IF tc.mid < TUNING_MIN_CODE + num_mid_codes
    THEN [tc EXCEPT
            !.mid = U8(tc.mid + TUNING_MAX_CODE + 1
                       - TUNING_NUM_MID_CODES_PER_COARSE_CODE_TRANSITION
                       - num_mid_codes),
            !.coarse = U8(tc.coarse - 1)]
    ELSE [tc EXCEPT !.mid = U8(tc.mid - num_mid_codes)]

\* Mutant: the carry restarts fine at the excess, without the transition width.
tuning_increment_fine_codes_no_overlap(tc, num_fine_codes) ==
    IF tc.fine + num_fine_codes > TUNING_MAX_CODE
    THEN tuning_increment_mid_codes(
            [tc EXCEPT
               !.fine = U8(tc.fine + num_fine_codes - TUNING_MAX_CODE - 1)],
            1)
    ELSE [tc EXCEPT !.fine = U8(tc.fine + num_fine_codes)]

tuning_increment_fine_codes(tc, num_fine_codes) ==
    IF tc.fine + num_fine_codes > TUNING_MAX_CODE
    THEN tuning_increment_mid_codes(
            [tc EXCEPT
               !.fine = U8(tc.fine + TUNING_NUM_FINE_CODES_PER_MID_CODE_TRANSITION
                           + num_fine_codes - TUNING_MAX_CODE - 1)],
            1)
    ELSE [tc EXCEPT !.fine = U8(tc.fine + num_fine_codes)]

\* Mutant: the borrow adds one fine code too few (the "+ 1" is dropped).
tuning_decrement_fine_codes_short_borrow(tc, num_fine_codes) ==
    IF tc.fine < TUNING_MIN_CODE + num_fine_codes
    THEN tuning_decrement_mid_codes(
            [tc EXCEPT
               !.fine = U8(tc.fine + TUNING_MAX_CODE
                           - TUNING_NUM_FINE_CODES_PER_MID_CODE_TRANSITION
                           - num_fine_codes)],
            1)
    ELSE [tc EXCEPT !.fine = U8(tc.fine - num_fine_codes)]

tuning_decrement_fine_codes(tc, num_fine_codes) ==
    IF tc.fine < TUNING_MIN_CODE + num_fine_codes
    THEN tuning_decrement_mid_codes(
            [tc EXCEPT
               !.fine = U8(tc.fine + TUNING_MAX_CODE + 1
                           - TUNING_NUM_FINE_CODES_PER_MID_CODE_TRANSITION
                           - num_fine_codes)],
            1)
    ELSE [tc EXCEPT !.fine = U8(tc.fine - num_fine_codes)]

\* Mutant: the lower branch moves mid and forgets to decrement coarse.
tuning_rollover_mid_code_keeps_coarse(tc, mid_code_threshold) ==
    LET low == IF /\ build = "channel_h"
                  /\ tc.mid < TUNING_MIN_CODE + mid_code_threshold
               THEN [tc EXCEPT
                       !.mid = U8(tc.mid
                           + TUNING_NUM_MID_CODES_PER_COARSE_CODE_TRANSITION)]
               ELSE tc
    IN  IF low.mid + mid_code_threshold > TUNING_MAX_CODE
        THEN [low EXCEPT
                !.mid = U8(low.mid
                    - TUNING_NUM_MID_CODES_PER_COARSE_CODE_TRANSITION),
                !.coarse = U8(low.coarse + 1)]
        ELSE low

\* The lower branch exists in the channel.h build only.
tuning_rollover_mid_code(tc, mid_code_threshold) ==
    LET low == IF /\ build = "channel_h"
                  /\ tc.mid < TUNING_MIN_CODE + mid_code_threshold
               THEN [tc EXCEPT
                       !.mid = U8(tc.mid
                           + TUNING_NUM_MID_CODES_PER_COARSE_CODE_TRANSITION),
                       !.coarse = U8(tc.coarse - 1)]
               ELSE tc
    IN  IF low.mid + mid_code_threshold > TUNING_MAX_CODE
        THEN [low EXCEPT
                !.mid = U8(low.mid
                    - TUNING_NUM_MID_CODES_PER_COARSE_CODE_TRANSITION),
                !.coarse = U8(low.coarse + 1)]
        ELSE low

tuning_estimate_previous_channel(tc) ==
    tuning_decrement_mid_codes(tc, TUNING_NUM_MID_CODES_BETWEEN_CHANNELS)

tuning_estimate_next_channel(tc) ==
    tuning_increment_mid_codes(tc, TUNING_NUM_MID_CODES_BETWEEN_CHANNELS)

tuning_estimate_tx_from_rx(tc) ==
    tuning_decrement_mid_codes(tc, TUNING_NUM_MID_CODES_BETWEEN_RX_AND_TX)

tuning_estimate_rx_from_tx(tc) ==
    tuning_increment_mid_codes(tc, TUNING_NUM_MID_CODES_BETWEEN_RX_AND_TX)

----------------------------------------------------------------------------
(* tuning.c: the sweep iterator *)

SweepRange(s, e) == [start |-> s, end |-> e]

SweepConfig(c, m, f) == [coarse |-> c, mid |-> m, fine |-> f]

\* The middle of the mid range, as stored in a uint8_t.
InitialMidCode(cfg) == U8((cfg.mid.start + cfg.mid.end) \div 2)

\* Mutant: the sweep always starts at mid.start.
tuning_init_for_sweep_from_start(cfg) ==
    TuningCode(cfg.coarse.start, cfg.mid.start, cfg.fine.start)

\* The channel.h build starts a single-coarse sweep in the middle of the mid
\* range; the part_004 build always starts at mid.start.
tuning_init_for_sweep(cfg) ==
    TuningCode(cfg.coarse.start,
               IF build = "channel_h" /\ cfg.coarse.start = cfg.coarse.end
               THEN InitialMidCode(cfg)
               ELSE cfg.mid.start,
               cfg.fine.start)

tuning_validate_sweep_config(cfg) ==
    /\ ~(cfg.coarse.start > TUNING_MAX_CODE \/ cfg.coarse.end > TUNING_MAX_CODE)
    /\ ~(cfg.mid.start > TUNING_MAX_CODE \/ cfg.mid.end > TUNING_MAX_CODE)
    /\ ~(cfg.fine.start > TUNING_MAX_CODE \/ cfg.fine.end > TUNING_MAX_CODE)
    /\ ~(\/ cfg.coarse.start > cfg.coarse.end
         \/ cfg.mid.start > cfg.mid.end
         \/ cfg.fine.start > cfg.fine.end)

\* The else branch of the channel.h build, and all of the part_004 build.
IncrementMidCodeRaster(tc, cfg) ==
    LET mid == U8(tc.mid + 1)
        coarse == U8(tc.coarse + 1)
    IN  IF mid > cfg.mid.end
        THEN [tc EXCEPT
                !.mid = cfg.mid.start,
                !.coarse = IF coarse > cfg.coarse.end
                           THEN cfg.coarse.start
                           ELSE coarse]
        ELSE [tc EXCEPT !.mid = mid]

\* Mutant: the step away from the midpoint is taken downwards (< for <=).
IncrementMidCodePingPongDownFirst(tc, cfg) ==
    LET initial_mid_code == InitialMidCode(cfg)
        mid_code_difference == tc.mid - initial_mid_code
        mid == U8(IF mid_code_difference < 0
                  THEN initial_mid_code + 1 - mid_code_difference
                  ELSE initial_mid_code - mid_code_difference)
    IN  [tc EXCEPT
           !.mid = IF mid < cfg.mid.start \/ mid > cfg.mid.end
                   THEN initial_mid_code
                   ELSE mid,
           !.coarse = cfg.coarse.start]

\* The single-coarse branch of the channel.h build: mid_code_difference is
\* an int16_t, the new mid is stored in a uint8_t before it is compared.
IncrementMidCodePingPong(tc, cfg) ==
    LET initial_mid_code == InitialMidCode(cfg)
        mid_code_difference == tc.mid - initial_mid_code
        mid == U8(IF mid_code_difference <= 0
                  THEN initial_mid_code + 1 - mid_code_difference
                  ELSE initial_mid_code - mid_code_difference)
    IN  [tc EXCEPT
           !.mid = IF mid < cfg.mid.start \/ mid > cfg.mid.end
                   THEN initial_mid_code
                   ELSE mid,
           !.coarse = cfg.coarse.start]

\* Mutant: the fine code is not brought back to fine.start.
tuning_increment_mid_code_for_sweep_keeps_fine(tc, cfg) ==
    IF build = "channel_h" /\ cfg.coarse.start = cfg.coarse.end
    THEN IncrementMidCodePingPong(tc, cfg)
    ELSE IncrementMidCodeRaster(tc, cfg)

tuning_increment_mid_code_for_sweep(tc, cfg) ==
    LET reset == [tc EXCEPT !.fine = cfg.fine.start]
    IN  IF build = "channel_h" /\ cfg.coarse.start = cfg.coarse.end
        THEN IncrementMidCodePingPong(reset, cfg)
        ELSE IncrementMidCodeRaster(reset, cfg)

\* Mutant: the fine code is stepped past fine.end, the mid code is never
\* stepped.
tuning_increment_fine_code_for_sweep_past_end(tc, cfg) ==
    [tc EXCEPT !.fine = U8(tc.fine + 1)]

tuning_increment_fine_code_for_sweep(tc, cfg) ==
    LET stepped == [tc EXCEPT !.fine = U8(tc.fine + 1)]
    IN  IF stepped.fine > cfg.fine.end
        THEN tuning_increment_mid_code_for_sweep(stepped, cfg)
        ELSE stepped

tuning_end_of_sweep(tc, cfg) ==
    \/ tc.coarse > cfg.coarse.end
    \/ /\ tc.coarse = cfg.coarse.end
       /\ \/ tc.mid > cfg.mid.end
          \/ tc.mid = cfg.mid.end /\ tc.fine >= cfg.fine.end

----------------------------------------------------------------------------
(* The algebra as a state machine: a caller holds one tuning_code_t and    *)
(* calls the operations on it.                                             *)

\* No sweep is in progress.
NoSweepConfig ==
    [coarse |-> [start |-> 0, end |-> 0],
     mid |-> [start |-> 0, end |-> 0],
     fine |-> [start |-> 0, end |-> 0]]

SweepIdle == sweep_config = NoSweepConfig /\ visited = <<>>

\* 802.15.4 channels.
MIN_CHANNEL == 11

MAX_CHANNEL == 26

Channels == MIN_CHANNEL..MAX_CHANNEL

NUM_CHANNELS == MAX_CHANNEL - MIN_CHANNEL + 1

CHANNEL_CAL_INITIAL_CHANNEL == 17

CHANNEL_CAL_MAX_NUM_FAILURES == 2

\* A channel_cal_channel_mode_info_t after memset(0).
ZeroChannelModeInfo ==
    [calibrated |-> FALSE,
     tuning_code |-> TuningCode(0, 0, 0),
     sweep_config |-> NoSweepConfig,
     num_failures |-> 0]

NoCall == [name |-> "none", channel |-> 0]

BoardInfo(min_coarse, max_coarse, mid) ==
    [min_coarse_code |-> min_coarse, max_coarse_code |-> max_coarse,
     mid_code |-> mid]

\* The engine's statics before any call.
CalStaticsInit ==
    /\ g_channel_cal_channel_infos =
           [c \in Channels |->
               [rx |-> ZeroChannelModeInfo, tx |-> ZeroChannelModeInfo]]
    /\ g_channel_cal_initial_rx_sweep_finished = FALSE
    /\ g_channel_cal_num_tx_failures = 0
    /\ g_channel_cal_num_channels_rx_calibrated = 0
    /\ g_channel_cal_num_channels_tx_calibrated = 0
    /\ timer_scheduled = FALSE
    /\ stale_timer_scheduled = FALSE
    /\ radio_tuning_code = TuningCode(0, 0, 0)
    /\ last_call = NoCall
    /\ num_calls = 0

\* The engine is not in use.
----------------------------------------------------------------------------
(* channel.c and the tuning feedback: the statics at start-up *)

TUNING_FEEDBACK_NUM_IF_ESTIMATES_TO_AVERAGE == 10

\* tuning_feedback_channel_info_t, zero-initialised.
ZeroFeedbackChannelInfo ==
    [if_estimates |->
         [i \in 0..(TUNING_FEEDBACK_NUM_IF_ESTIMATES_TO_AVERAGE - 1) |-> 0],
     if_estimates_full_array |-> FALSE,
     if_estimate_index |-> 0]

\* No stream of IF estimates is being followed.
NoStream ==
    [channel |-> 0, estimates |-> {},
     start_code |-> TuningCode(0, 0, 0), num_samples |-> 0]

\* The windows of IF estimates: one per channel in channel_cal.c, a single
\* one for all channels in tuning_feedback.c.
FeedbackStaticsInit ==
    /\ g_tuning_feedback_channel_infos =
           [c \in Channels |-> ZeroFeedbackChannelInfo]
    /\ g_tuning_feedback_if_estimates = ZeroFeedbackChannelInfo

ChannelStaticsInit ==
    /\ g_channel_tx_tuning_codes = [c \in Channels |-> TuningCode(0, 0, 0)]
    /\ g_channel_rx_tuning_codes = [c \in Channels |-> TuningCode(0, 0, 0)]

\* No call of the registry made yet; each entry holds its static value.
NoChannelHistory ==
    [name |-> "none", channel |-> 0, mode |-> "none",
     code |-> TuningCode(0, 0, 0), out |-> TuningCode(0, 0, 0),
     last_set |-> [tx |-> [c \in Channels |-> TuningCode(0, 0, 0)],
                   rx |-> [c \in Channels |-> TuningCode(0, 0, 0)]]]

FeedbackIdle ==
    /\ ChannelStaticsInit
    /\ FeedbackStaticsInit
    /\ if_estimate = 0
    /\ stream = NoStream
    /\ channel_history = NoChannelHistory

----------------------------------------------------------------------------
(* The statics of the peer coordinator (OpenMote), unnamed/part_000. *)

SMART_STAKE_DEMO_CHANNEL == 17

CHANNEL_CAL_CHANNEL_START == 17

CHANNEL_CAL_CHANNEL_END == 18

CHANNEL_CAL_MIN_CHANNEL == 11

CHANNEL_CAL_MAX_CHANNEL == 26

CHANNEL_CAL_RX_MID_CODE_THRESHOLD == 24

CHANNEL_CAL_MAX_NUM_TX_TUNING_CODES_PER_CHANNEL == 4

CHANNEL_CAL_MAX_NUM_RECORDED_TX_TUNING_CODES == 128

\* channel_cal_state_e
CHANNEL_CAL_STATE_INVALID == "INVALID"

CHANNEL_CAL_STATE_RX == "RX"

CHANNEL_CAL_STATE_RX_IDLE == "RX_IDLE"

CHANNEL_CAL_STATE_RX_RECEIVED == "RX_RECEIVED"

CHANNEL_CAL_STATE_TX == "TX"

CHANNEL_CAL_STATE_RX_ACK == "RX_ACK"

CHANNEL_CAL_STATE_RX_ACK_IDLE == "RX_ACK_IDLE"

CHANNEL_CAL_STATE_RX_ACK_RECEIVED == "RX_ACK_RECEIVED"

CHANNEL_CAL_STATE_SMART_STAKE_RX == "SMART_STAKE_RX"

CHANNEL_CAL_STATE_SMART_STAKE_RX_IDLE == "SMART_STAKE_RX_IDLE"

CHANNEL_CAL_STATE_SMART_STAKE_RX_RECEIVED == "SMART_STAKE_RX_RECEIVED"

\* channel_cal_command_e
CHANNEL_CAL_COMMAND_NONE == 0

CHANNEL_CAL_COMMAND_CHANGE_CHANNEL == 255

\* The timeouts the timer compare is armed with, by name.
CHANNEL_CAL_RX_TIMEOUT == "RX_TIMEOUT"

CHANNEL_CAL_RX_LONG_TIMEOUT == "RX_LONG_TIMEOUT"

CHANNEL_CAL_TX_TIMEOUT == "TX_TIMEOUT"

\* The channels the peer keeps averaged codes for.
PeerChannels == CHANNEL_CAL_MIN_CHANNEL..CHANNEL_CAL_MAX_CHANNEL

\* The fields of channel_cal_rx_packet_t and smart_stake_rx_packet_t that the
\* coordinator reads, zeroed.
ZeroPeerPacket ==
    [channel |-> 0, command |-> CHANNEL_CAL_COMMAND_NONE,
     tuning_code |-> TuningCode(0, 0, 0)]

\* One row of g_channel_cal_scum_tx_tuning_codes, zeroed.
ZeroPeerCodes ==
    [j \in 0..(CHANNEL_CAL_MAX_NUM_TX_TUNING_CODES_PER_CHANNEL - 1) |->
        TuningCode(0, 0, 0)]

\* No step of the coordinator taken yet.
NoPeerStep ==
    [name |-> "none", read |-> ZeroPeerPacket, caused_by |-> ZeroPeerPacket]

\* The statics of the coordinator as loaded, before mote_main runs.
PeerStaticsInit ==
    /\ g_channel_cal_state = CHANNEL_CAL_STATE_INVALID
    /\ g_channel_cal_channel = CHANNEL_CAL_CHANNEL_START
    /\ g_channel_cal_rx_packet = ZeroPeerPacket
    /\ g_channel_cal_rx_packet_crc = FALSE
    /\ g_channel_cal_scum_tx_tuning_codes = [c \in PeerChannels |-> ZeroPeerCodes]
    /\ g_channel_cal_scum_tx_tuning_codes_for_channel = <<>>
    /\ g_channel_cal_scum_tx_num_received_tuning_codes_for_channel = 0
    /\ g_smart_stake_rx_packet = ZeroPeerPacket

PeerIdle ==
    /\ PeerStaticsInit
    /\ end_frame_cb = "none"
    /\ sctimer = "off"
    /\ peer_step = NoPeerStep
    /\ protocol = <<>>
    /\ num_frames = 0

----------------------------------------------------------------------------
(* The statics of the radio app, projects/common/01bsp_macscum. *)

\* The flags of app_vars.flags.
APP_FLAG_START_FRAME == 1

APP_FLAG_END_FRAME == 2

APP_FLAG_TIMER == 4

\* app_state_t
APP_STATE_TX == 1

APP_STATE_RX == 2

\* app_vars after the memset of mote_main.
ZeroAppVars == [flags |-> 0, state |-> 0, uartDone |-> 0]

RadioAppIdle ==
    /\ app_vars = ZeroAppVars
    /\ main_pc = "none"
    /\ main_flags = 0
    /\ app_radio = "off"
    /\ compare_armed = FALSE
    /\ app_step = "none"
    /\ app_pending = {}

\* The programs other than the SCuM firmware are not running.
ProgramsIdle == PeerIdle /\ RadioAppIdle

----------------------------------------------------------------------------

CalIdle == board_info = BoardInfo(0, 0, 0) /\ CalStaticsInit /\ FeedbackIdle

CoarseCodes ==
    (TUNING_MIN_CODE..(TUNING_MIN_CODE + CoarseMargin))
        \cup ((TUNING_MAX_CODE - CoarseMargin)..TUNING_MAX_CODE)

NumCodes == 1..TUNING_MAX_CODE

AlgebraInit(fines) ==
    /\ build \in Builds
    /\ input \in {TuningCode(c, m, f) :
                    c \in CoarseCodes,
                    m \in TUNING_MIN_CODE..TUNING_MAX_CODE,
                    f \in fines}
    /\ tuning_code = input
    /\ num_codes = 0
    /\ num_codes_2 = 0
    /\ applied = <<>>
    /\ SweepIdle
    /\ CalIdle
    /\ ProgramsIdle

\* The first call on the code, with argument n.
First(name, n, result) ==
    /\ applied = <<>>
    /\ applied' = <<name>>
    /\ num_codes' = n
    /\ tuning_code' = result
    /\ UNCHANGED <<build, program_vars,
                   input, num_codes_2, sweep_vars, cal_vars,
                   feedback_vars>>

\* A second call, with argument n, after the call named prev.
Second(prev, name, n, result) ==
    /\ applied = <<prev>>
    /\ applied' = <<prev, name>>
    /\ num_codes_2' = n
    /\ tuning_code' = result
    /\ UNCHANGED <<build, program_vars, input, num_codes, sweep_vars, cal_vars,
                   feedback_vars>>

IncrementFineCodes ==
    \E n \in NumCodes :
        First("increment_fine", n, tuning_increment_fine_codes(tuning_code, n))

\* Called first, or to undo the increment just made.
DecrementFineCodes ==
    \/ \E n \in NumCodes :
        First("decrement_fine", n, tuning_decrement_fine_codes(tuning_code, n))
    \/ Second("increment_fine", "decrement_fine", num_codes,
              tuning_decrement_fine_codes(tuning_code, num_codes))

InitFine == AlgebraInit(TUNING_MIN_CODE..TUNING_MAX_CODE)

NextFine == IncrementFineCodes \/ DecrementFineCodes

SpecFine == InitFine /\ [][NextFine]_vars

\* Called first, or again after a first increment.
IncrementMidCodes ==
    \/ \E n \in NumCodes :
        First("increment_mid", n, tuning_increment_mid_codes(tuning_code, n))
    \/ \E n \in NumCodes :
        Second("increment_mid", "increment_mid", n,
               tuning_increment_mid_codes(tuning_code, n))

DecrementMidCodes ==
    \E n \in NumCodes :
        First("decrement_mid", n, tuning_decrement_mid_codes(tuning_code, n))

\* Called first, or again on its own result with the same threshold.
RolloverMidCode ==
    \/ \E n \in NumCodes :
        First("rollover_mid", n, tuning_rollover_mid_code(tuning_code, n))
    \/ Second("rollover_mid", "rollover_mid", num_codes,
              tuning_rollover_mid_code(tuning_code, num_codes))

EstimateNextChannel ==
    First("estimate_next_channel", TUNING_NUM_MID_CODES_BETWEEN_CHANNELS,
          tuning_estimate_next_channel(tuning_code))

\* Called first, or to undo estimate_next_channel.
EstimatePreviousChannel ==
    \/ First("estimate_previous_channel", TUNING_NUM_MID_CODES_BETWEEN_CHANNELS,
             tuning_estimate_previous_channel(tuning_code))
    \/ Second("estimate_next_channel", "estimate_previous_channel",
              TUNING_NUM_MID_CODES_BETWEEN_CHANNELS,
              tuning_estimate_previous_channel(tuning_code))

EstimateRxFromTx ==
    First("estimate_rx_from_tx", TUNING_NUM_MID_CODES_BETWEEN_RX_AND_TX,
          tuning_estimate_rx_from_tx(tuning_code))

\* Called first, or to undo estimate_rx_from_tx.
EstimateTxFromRx ==
    \/ First("estimate_tx_from_rx", TUNING_NUM_MID_CODES_BETWEEN_RX_AND_TX,
             tuning_estimate_tx_from_rx(tuning_code))
    \/ Second("estimate_rx_from_tx", "estimate_tx_from_rx",
              TUNING_NUM_MID_CODES_BETWEEN_RX_AND_TX,
              tuning_estimate_tx_from_rx(tuning_code))

InitMid == AlgebraInit(TUNING_MIN_CODE..(TUNING_MIN_CODE + FineSpan))

NextMid ==
    \/ IncrementMidCodes
    \/ DecrementMidCodes
    \/ RolloverMidCode
    \/ EstimateNextChannel
    \/ EstimatePreviousChannel
    \/ EstimateRxFromTx
    \/ EstimateTxFromRx

SpecMid == InitMid /\ [][NextMid]_vars

----------------------------------------------------------------------------
(* The sweep iterator as a state machine: a caller holds a sweep           *)
(* configuration and a tuning code, initialises the code for the sweep and *)
(* then steps it one fine code at a time.                                  *)

\* The ranges [s, s + w] that start at 0 or end at 31, for w in 0..max.
SweepRanges(max) ==
    {SweepRange(TUNING_MIN_CODE, TUNING_MIN_CODE + w) : w \in 0..max}
        \cup {SweepRange(TUNING_MAX_CODE - w, TUNING_MAX_CODE) : w \in 0..max}

SweepConfigs ==
    {SweepConfig(c, m, f) :
        c \in SweepRanges(MaxCoarseRange),
        m \in SweepRanges(MaxMidRange),
        f \in SweepRanges(MaxFineRange)}

AlgebraIdle ==
    /\ input = TuningCode(TUNING_MIN_CODE, TUNING_MIN_CODE, TUNING_MIN_CODE)
    /\ num_codes = 0
    /\ num_codes_2 = 0
    /\ applied = <<>>

\* Before tuning_init_for_sweep the caller's code holds anything.
InitSweep ==
    /\ build \in Builds
    /\ sweep_config \in SweepConfigs
    /\ tuning_validate_sweep_config(sweep_config)
    /\ tuning_code \in {TuningCode(TUNING_MIN_CODE, TUNING_MIN_CODE,
                                   TUNING_MIN_CODE),
                        TuningCode(TUNING_MAX_CODE, TUNING_MAX_CODE,
                                   TUNING_MAX_CODE)}
    /\ visited = <<>>
    /\ AlgebraIdle
    /\ CalIdle
    /\ ProgramsIdle

InitForSweep ==
    /\ visited = <<>>
    /\ tuning_code' = tuning_init_for_sweep(sweep_config)
    /\ visited' = <<tuning_code'>>
    /\ UNCHANGED <<build, program_vars, sweep_config, algebra_vars, cal_vars,
                   feedback_vars>>

IncrementFineCodeForSweep ==
    /\ visited # <<>>
    /\ Len(visited) < MaxSweepSteps
    /\ tuning_code' =
           tuning_increment_fine_code_for_sweep(tuning_code, sweep_config)
    /\ visited' = Append(visited, tuning_code')
    /\ UNCHANGED <<build, program_vars, sweep_config, algebra_vars, cal_vars,
                   feedback_vars>>

NextSweep == InitForSweep \/ IncrementFineCodeForSweep

SpecSweep == InitSweep /\ [][NextSweep]_vars

----------------------------------------------------------------------------
(* channel_cal.c: the channel calibration engine.  Its functions are       *)
(* operators from the engine's statics, held in a record, to the statics   *)
(* they leave.                                                             *)

Globals ==
    [channel_infos |-> g_channel_cal_channel_infos,
     initial_rx_sweep_finished |-> g_channel_cal_initial_rx_sweep_finished,
     num_tx_failures |-> g_channel_cal_num_tx_failures,
     num_channels_rx_calibrated |-> g_channel_cal_num_channels_rx_calibrated,
     num_channels_tx_calibrated |-> g_channel_cal_num_channels_tx_calibrated]

U16(x) == x % 65536

\* Mutant: the mid range is not widened by one on each side.
channel_cal_init_channel_mode_info_narrow(code, num_additional_mid_codes) ==
    LET tuning_code_rolled_over ==
            tuning_rollover_mid_code(code, 1 + num_additional_mid_codes)
        config ==
            SweepConfig(
                SweepRange(tuning_code_rolled_over.coarse,
                           tuning_code_rolled_over.coarse),
                SweepRange(U8(tuning_code_rolled_over.mid
                                  - num_additional_mid_codes),
                           U8(tuning_code_rolled_over.mid
                                  + num_additional_mid_codes)),
                SweepRange(TUNING_MIN_CODE, TUNING_MAX_CODE - 7))
    IN  IF ~tuning_validate_sweep_config(config)
        THEN [ok |-> FALSE,
              info |-> [ZeroChannelModeInfo EXCEPT !.sweep_config = config]]
        ELSE [ok |-> TRUE,
              info |-> [calibrated |-> FALSE,
                        tuning_code |-> tuning_init_for_sweep(config),
                        sweep_config |-> config,
                        num_failures |-> 0]]

\* The return value and the channel mode information left behind.
channel_cal_init_channel_mode_info(code, num_additional_mid_codes) ==
    LET tuning_code_rolled_over ==
            tuning_rollover_mid_code(code, 1 + num_additional_mid_codes)
        config ==
            SweepConfig(
                SweepRange(tuning_code_rolled_over.coarse,
                           tuning_code_rolled_over.coarse),
                SweepRange(U8(tuning_code_rolled_over.mid - 1
                                  - num_additional_mid_codes),
                           U8(tuning_code_rolled_over.mid + 1
                                  + num_additional_mid_codes)),
                SweepRange(TUNING_MIN_CODE, TUNING_MAX_CODE - 7))
    IN  IF ~tuning_validate_sweep_config(config)
        THEN [ok |-> FALSE,
              info |-> [ZeroChannelModeInfo EXCEPT !.sweep_config = config]]
        ELSE [ok |-> TRUE,
              info |-> [calibrated |-> FALSE,
                        tuning_code |-> tuning_init_for_sweep(config),
                        sweep_config |-> config,
                        num_failures |-> 0]]

channel_cal_rx_calibrated(g, channel) ==
    g.channel_infos[channel].rx.calibrated

channel_cal_tx_calibrated(g, channel) ==
    g.channel_infos[channel].tx.calibrated

\* Mutant: the failure is handled whether the RX code is calibrated or not.
channel_cal_rx_failure_ignores_calibrated(g, channel) ==
    LET rx == g.channel_infos[channel].rx
        num_failures == U8(rx.num_failures + 1)
    IN  IF num_failures = CHANNEL_CAL_MAX_NUM_FAILURES
        THEN [g EXCEPT
                !.channel_infos[channel].rx.tuning_code =
                    tuning_increment_fine_code_for_sweep(
                        rx.tuning_code, rx.sweep_config),
                !.channel_infos[channel].rx.num_failures = 0]
        ELSE [g EXCEPT
                !.channel_infos[channel].rx.num_failures = num_failures]

channel_cal_rx_failure(g, channel) ==
    IF channel_cal_rx_calibrated(g, channel)
    THEN g
    ELSE LET rx == g.channel_infos[channel].rx
             num_failures == U8(rx.num_failures + 1)
         IN  IF num_failures = CHANNEL_CAL_MAX_NUM_FAILURES
             THEN [g EXCEPT
                     !.channel_infos[channel].rx.tuning_code =
                         tuning_increment_fine_code_for_sweep(
                             rx.tuning_code, rx.sweep_config),
                     !.channel_infos[channel].rx.num_failures = 0]
             ELSE [g EXCEPT
                     !.channel_infos[channel].rx.num_failures = num_failures]

\* Mutant: the TX information is set up again on every first RX success,
\* whether the TX code is calibrated or not.
channel_cal_rx_success_reinits_tx(g, channel) ==
    LET info == g.channel_infos[channel]
        tx == channel_cal_init_channel_mode_info(
                  tuning_estimate_tx_from_rx(info.rx.tuning_code), 0).info
    IN  [g EXCEPT
           !.channel_infos[channel].rx.num_failures = 0,
           !.channel_infos[channel].rx.calibrated = TRUE,
           !.channel_infos[channel].tx =
               IF info.rx.calibrated = FALSE THEN tx ELSE info.tx,
           !.num_channels_rx_calibrated =
               IF info.rx.calibrated = FALSE THEN U8(@ + 1) ELSE @]

channel_cal_rx_success(g, channel) ==
    LET info == g.channel_infos[channel]
        tx == channel_cal_init_channel_mode_info(
                  tuning_estimate_tx_from_rx(info.rx.tuning_code), 0).info
    IN  [g EXCEPT
           !.channel_infos[channel].rx.num_failures = 0,
           !.channel_infos[channel].rx.calibrated = TRUE,
           !.channel_infos[channel].tx =
               IF info.rx.calibrated = FALSE
                      /\ channel_cal_tx_calibrated(g, channel) = FALSE
               THEN tx
               ELSE info.tx,
           !.num_channels_rx_calibrated =
               IF info.rx.calibrated = FALSE THEN U8(@ + 1) ELSE @]

\* Mutant: the failure count is not cleared when the code is advanced.
channel_cal_tx_failure_keeps_count(g, channel) ==
    LET counted == [g EXCEPT !.num_tx_failures = U16(@ + 1)]
        tx == g.channel_infos[channel].tx
        num_failures == U8(tx.num_failures + 1)
    IN  IF channel_cal_tx_calibrated(g, channel)
        THEN counted
        ELSE IF num_failures = CHANNEL_CAL_MAX_NUM_FAILURES
             THEN [counted EXCEPT
                     !.channel_infos[channel].tx.tuning_code =
                         tuning_increment_fine_code_for_sweep(
                             tx.tuning_code, tx.sweep_config),
                     !.channel_infos[channel].tx.num_failures = num_failures]
             ELSE [counted EXCEPT
                     !.channel_infos[channel].tx.num_failures = num_failures]

channel_cal_tx_failure(g, channel) ==
    LET counted == [g EXCEPT !.num_tx_failures = U16(@ + 1)]
        tx == g.channel_infos[channel].tx
        num_failures == U8(tx.num_failures + 1)
    IN  IF channel_cal_tx_calibrated(g, channel)
        THEN counted
        ELSE IF num_failures = CHANNEL_CAL_MAX_NUM_FAILURES
             THEN [counted EXCEPT
                     !.channel_infos[channel].tx.tuning_code =
                         tuning_increment_fine_code_for_sweep(
                             tx.tuning_code, tx.sweep_config),
                     !.channel_infos[channel].tx.num_failures = 0]
             ELSE [counted EXCEPT
                     !.channel_infos[channel].tx.num_failures = num_failures]

channel_cal_tx_success(g, channel) ==
    [g EXCEPT
       !.num_tx_failures = 0,
       !.channel_infos[channel].tx.calibrated = TRUE,
       !.channel_infos[channel].tx.num_failures = 0,
       !.num_channels_tx_calibrated = U8(@ + 1)]

channel_cal_reset_num_tx_failures(g) == [g EXCEPT !.num_tx_failures = 0]

\* Mutant: the end of the sweep is not recorded.
channel_cal_end_initial_rx_sweep_not_recorded(g) ==
    channel_cal_rx_success(g, CHANNEL_CAL_INITIAL_CHANNEL)

channel_cal_end_initial_rx_sweep(g) ==
    [channel_cal_rx_success(g, CHANNEL_CAL_INITIAL_CHANNEL) EXCEPT
       !.initial_rx_sweep_finished = TRUE]

\* The statics left by the timer callback when the initial channel is not
\* RX calibrated.
channel_cal_initial_rx_timer_cb(g) ==
    LET rx == g.channel_infos[CHANNEL_CAL_INITIAL_CHANNEL].rx
    IN  [g EXCEPT
           !.channel_infos[CHANNEL_CAL_INITIAL_CHANNEL].rx.tuning_code =
               tuning_increment_fine_code_for_sweep(rx.tuning_code,
                                                    rx.sweep_config)]

channel_cal_init_initial_rx_sweep(g) ==
    LET start_coarse_code == board_info.min_coarse_code
        end_coarse_code == board_info.max_coarse_code
        config ==
            SweepConfig(SweepRange(start_coarse_code, end_coarse_code),
                        SweepRange(board_info.mid_code, board_info.mid_code),
                        SweepRange(TUNING_MIN_CODE, TUNING_MAX_CODE - 7))
    IN  IF \/ start_coarse_code > end_coarse_code
           \/ start_coarse_code < TUNING_MIN_CODE
           \/ end_coarse_code > TUNING_MAX_CODE
        THEN g
        ELSE IF ~tuning_validate_sweep_config(config)
        THEN [g EXCEPT
                !.channel_infos[CHANNEL_CAL_INITIAL_CHANNEL].rx =
                    [ZeroChannelModeInfo EXCEPT !.sweep_config = config]]
        ELSE [g EXCEPT
                !.channel_infos[CHANNEL_CAL_INITIAL_CHANNEL].rx =
                    [calibrated |-> FALSE,
                     tuning_code |-> tuning_init_for_sweep(config),
                     sweep_config |-> config,
                     num_failures |-> 0],
                !.initial_rx_sweep_finished = FALSE,
                !.num_tx_failures = 0,
                !.num_channels_rx_calibrated = 0,
                !.num_channels_tx_calibrated = 0]

\* (uint8_t)(a - b >= 2), the subtraction being done in int.
AdditionalMidCodes(a, b) == IF a - b >= 2 THEN 1 ELSE 0

\* The two loops of channel_cal_init_remaining_sweeps from the channel
\* `channel` on, `step` being -1 in the first loop and +1 in the second;
\* a failed initialisation returns from the function.
RECURSIVE InitRemainingChannels(_, _, _, _, _)
InitRemainingChannels(infos, channel, step, initial_rx, initial_tx) ==
    IF channel < MIN_CHANNEL
    THEN InitRemainingChannels(infos, CHANNEL_CAL_INITIAL_CHANNEL + 1, 1,
                               initial_rx, initial_tx)
    ELSE IF channel > MAX_CHANNEL
    THEN infos
    ELSE LET last_channel == channel - step
             channel_rx_tuning_code ==
                 IF step < 0
                 THEN tuning_estimate_previous_channel(
                          infos[last_channel].rx.tuning_code)
                 ELSE tuning_estimate_next_channel(
                          infos[last_channel].rx.tuning_code)
             channel_tx_tuning_code ==
                 IF step < 0
                 THEN tuning_estimate_previous_channel(
                          infos[last_channel].tx.tuning_code)
                 ELSE tuning_estimate_next_channel(
                          infos[last_channel].tx.tuning_code)
             rx == channel_cal_init_channel_mode_info(
                       channel_rx_tuning_code,
                       IF step < 0
                       THEN AdditionalMidCodes(initial_rx.coarse,
                                               channel_rx_tuning_code.coarse)
                       ELSE AdditionalMidCodes(channel_rx_tuning_code.coarse,
                                               initial_rx.coarse))
             tx == channel_cal_init_channel_mode_info(
                       channel_tx_tuning_code,
                       IF step < 0
                       THEN AdditionalMidCodes(initial_tx.coarse,
                                               channel_tx_tuning_code.coarse)
                       ELSE AdditionalMidCodes(channel_tx_tuning_code.coarse,
                                               initial_tx.coarse))
             with_rx == [infos EXCEPT ![channel].rx = rx.info]
             with_tx == [with_rx EXCEPT ![channel].tx = tx.info]
         IN  IF ~rx.ok THEN with_rx
             ELSE IF ~tx.ok THEN with_tx
             ELSE InitRemainingChannels(with_tx, channel + step, step,
                                        initial_rx, initial_tx)

\* Mutant: the RX code of the initial channel is not put back after its
\* sweep is set up again.
channel_cal_init_remaining_sweeps_resets_initial(g) ==
    LET infos == g.channel_infos
        initial_channel_rx_tuning_code ==
            infos[CHANNEL_CAL_INITIAL_CHANNEL].rx.tuning_code
        rx == channel_cal_init_channel_mode_info(
                  initial_channel_rx_tuning_code, 0)
        initial_channel_tx_tuning_code ==
            tuning_estimate_tx_from_rx(initial_channel_rx_tuning_code)
        tx == channel_cal_init_channel_mode_info(
                  initial_channel_tx_tuning_code, 0)
        with_rx ==
            [infos EXCEPT
               ![CHANNEL_CAL_INITIAL_CHANNEL].rx =
                   IF rx.ok
                   THEN [rx.info EXCEPT !.calibrated = TRUE]
                   ELSE rx.info]
        with_tx == [with_rx EXCEPT ![CHANNEL_CAL_INITIAL_CHANNEL].tx = tx.info]
    IN  [g EXCEPT
           !.channel_infos =
               IF ~rx.ok THEN with_rx
               ELSE IF ~tx.ok THEN with_tx
               ELSE InitRemainingChannels(
                        with_tx, CHANNEL_CAL_INITIAL_CHANNEL - 1, -1,
                        initial_channel_rx_tuning_code,
                        initial_channel_tx_tuning_code)]

\* The globals after channel_cal_init_remaining_sweeps.
channel_cal_init_remaining_sweeps(g) ==
    LET infos == g.channel_infos
        initial_channel_rx_tuning_code ==
            infos[CHANNEL_CAL_INITIAL_CHANNEL].rx.tuning_code
        rx == channel_cal_init_channel_mode_info(
                  initial_channel_rx_tuning_code, 0)
        initial_channel_tx_tuning_code ==
            tuning_estimate_tx_from_rx(initial_channel_rx_tuning_code)
        tx == channel_cal_init_channel_mode_info(
                  initial_channel_tx_tuning_code, 0)
        with_rx ==
            [infos EXCEPT
               ![CHANNEL_CAL_INITIAL_CHANNEL].rx =
                   IF rx.ok
                   THEN [rx.info EXCEPT
                           !.tuning_code = initial_channel_rx_tuning_code,
                           !.calibrated = TRUE]
                   ELSE rx.info]
        with_tx == [with_rx EXCEPT ![CHANNEL_CAL_INITIAL_CHANNEL].tx = tx.info]
    IN  [g EXCEPT
           !.channel_infos =
               IF ~rx.ok THEN with_rx
               ELSE IF ~tx.ok THEN with_tx
               ELSE InitRemainingChannels(
                        with_tx, CHANNEL_CAL_INITIAL_CHANNEL - 1, -1,
                        initial_channel_rx_tuning_code,
                        initial_channel_tx_tuning_code)]

\* The return value of channel_cal_init_remaining_sweeps.  It returns FALSE
\* as soon as a channel_cal_init_channel_mode_info it calls does, which
\* leaves the sweep configuration that failed the validation behind; when
\* none does, the 32 sweep configurations have all been set and validated.
channel_cal_init_remaining_sweeps_returns(g) ==
    LET infos == channel_cal_init_remaining_sweeps(g).channel_infos
    IN  \A c \in Channels :
            /\ tuning_validate_sweep_config(infos[c].rx.sweep_config)
            /\ tuning_validate_sweep_config(infos[c].tx.sweep_config)

----------------------------------------------------------------------------
(* The calibration engine as a state machine: the MAC layer calls the      *)
(* engine's functions in any order, and the calibration timer fires while  *)
(* it is scheduled.                                                        *)

\* TUNING_MIN_COARSE_CODE, TUNING_MAX_COARSE_CODE and TUNING_MID_CODE of the
\* boards explored.
BoardInfos == {BoardInfo(22, 23, 15), BoardInfo(23, 23, 16)}

\* The channels the MAC layer reports successes and failures on.
EventChannels ==
    {MIN_CHANNEL, CHANNEL_CAL_INITIAL_CHANNEL, CHANNEL_CAL_INITIAL_CHANNEL + 1}

InitCal ==
    /\ build \in Builds
    /\ board_info \in BoardInfos
    /\ tuning_code = TuningCode(TUNING_MIN_CODE, TUNING_MIN_CODE,
                                TUNING_MIN_CODE)
    /\ AlgebraIdle
    /\ SweepIdle
    /\ CalStaticsInit
    /\ ProgramsIdle
    /\ FeedbackIdle

\* The timers: the one of g_channel_cal_timer_id and the ones created by
\* earlier initialisations, which nothing cancels.
Timers(current, stale) == [current |-> current, stale |-> stale]

CurrentTimers == Timers(timer_scheduled, stale_timer_scheduled)

\* A call of the engine that leaves the statics g, the timers and the radio
\* as given.
EngineCall(name, channel, g, timers, radio) ==
    /\ num_calls' = num_calls + 1
    /\ last_call' = [name |-> name, channel |-> channel]
    /\ g_channel_cal_channel_infos' = g.channel_infos
    /\ g_channel_cal_initial_rx_sweep_finished' = g.initial_rx_sweep_finished
    /\ g_channel_cal_num_tx_failures' = g.num_tx_failures
    /\ g_channel_cal_num_channels_rx_calibrated' =
           g.num_channels_rx_calibrated
    /\ g_channel_cal_num_channels_tx_calibrated' =
           g.num_channels_tx_calibrated
    /\ timer_scheduled' = timers.current
    /\ stale_timer_scheduled' = timers.stale
    /\ radio_tuning_code' = radio
    /\ UNCHANGED <<build, program_vars, tuning_code, algebra_vars, board_info>>

\* The engine does not use the registry or the tuning feedback.
Do(name, channel, g, timers, radio) ==
    /\ EngineCall(name, channel, g, timers, radio)
    /\ UNCHANGED feedback_vars

Call(name, channel, g, timers, radio) ==
    /\ num_calls < MaxCalls
    /\ Do(name, channel, g, timers, radio)
    /\ UNCHANGED sweep_vars

\* channel_cal_init_initial_rx_sweep returns TRUE.
InitInitialRxSweepSucceeds ==
    /\ board_info.min_coarse_code <= board_info.max_coarse_code
    /\ board_info.max_coarse_code <= TUNING_MAX_CODE
    /\ board_info.mid_code <= TUNING_MAX_CODE

\* opentimers_create hands out a new timer; the one scheduled under the
\* earlier identifier still fires.
TimersAfterInit(timers) ==
    IF InitInitialRxSweepSucceeds
    THEN Timers(FALSE, timers.stale \/ timers.current)
    ELSE timers

\* channel_cal_initial_rx_tune_radio.
channel_cal_initial_rx_tune_radio(g) ==
    g.channel_infos[CHANNEL_CAL_INITIAL_CHANNEL].rx.tuning_code

\* Mutant: the callback does not schedule the timer again.
TimersAfterCbNoRearm(g, timers, fired_stale) ==
    IF fired_stale
    THEN Timers(timers.current, FALSE)
    ELSE Timers(FALSE, timers.stale)

\* The timers after one of them fired and the callback ran in statics g: it
\* schedules the current timer again unless the initial channel is RX
\* calibrated.
TimersAfterCb(g, timers, fired_stale) ==
    LET left == IF fired_stale
                THEN Timers(timers.current, FALSE)
                ELSE Timers(FALSE, timers.stale)
    IN  IF channel_cal_rx_calibrated(g, CHANNEL_CAL_INITIAL_CHANNEL)
        THEN left
        ELSE Timers(TRUE, left.stale)

\* Mutant: the callback does not look at the calibrated flag.
GlobalsAfterCbUnguarded(g) == channel_cal_initial_rx_timer_cb(g)

\* The statics after the timer callback ran in statics g.
GlobalsAfterCb(g) ==
    IF channel_cal_rx_calibrated(g, CHANNEL_CAL_INITIAL_CHANNEL)
    THEN g
    ELSE channel_cal_initial_rx_timer_cb(g)

\* The radio after the timer callback ran in statics g.
RadioAfterCb(g, radio) ==
    IF channel_cal_rx_calibrated(g, CHANNEL_CAL_INITIAL_CHANNEL)
    THEN radio
    ELSE channel_cal_initial_rx_tune_radio(channel_cal_initial_rx_timer_cb(g))

InitInitialRxSweep ==
    Call("init_initial_rx_sweep", CHANNEL_CAL_INITIAL_CHANNEL,
         channel_cal_init_initial_rx_sweep(Globals),
         TimersAfterInit(CurrentTimers), radio_tuning_code)

InitRemainingSweeps ==
    Call("init_remaining_sweeps", CHANNEL_CAL_INITIAL_CHANNEL,
         channel_cal_init_remaining_sweeps(Globals), CurrentTimers,
         radio_tuning_code)

StartInitialRxSweep ==
    Call("start_initial_rx_sweep", CHANNEL_CAL_INITIAL_CHANNEL, Globals,
         Timers(TRUE, stale_timer_scheduled),
         channel_cal_initial_rx_tune_radio(Globals))

\* A scheduled timer fires and its callback runs.
InitialRxTimerCb ==
    \E fired_stale \in BOOLEAN :
        /\ IF fired_stale THEN stale_timer_scheduled ELSE timer_scheduled
        /\ Call("initial_rx_timer_cb", CHANNEL_CAL_INITIAL_CHANNEL,
                GlobalsAfterCb(Globals),
                TimersAfterCb(Globals, CurrentTimers, fired_stale),
                RadioAfterCb(Globals, radio_tuning_code))

EndInitialRxSweep ==
    Call("end_initial_rx_sweep", CHANNEL_CAL_INITIAL_CHANNEL,
         channel_cal_end_initial_rx_sweep(Globals),
         Timers(FALSE, stale_timer_scheduled), radio_tuning_code)

RxFailure ==
    \E channel \in EventChannels :
        Call("rx_failure", channel, channel_cal_rx_failure(Globals, channel),
             CurrentTimers, radio_tuning_code)

RxSuccess ==
    \E channel \in EventChannels :
        Call("rx_success", channel, channel_cal_rx_success(Globals, channel),
             CurrentTimers, radio_tuning_code)

TxFailure ==
    \E channel \in EventChannels :
        Call("tx_failure", channel, channel_cal_tx_failure(Globals, channel),
             CurrentTimers, radio_tuning_code)

TxSuccess ==
    \E channel \in EventChannels :
        Call("tx_success", channel, channel_cal_tx_success(Globals, channel),
             CurrentTimers, radio_tuning_code)

ResetNumTxFailures ==
    Call("reset_num_tx_failures", CHANNEL_CAL_INITIAL_CHANNEL,
         channel_cal_reset_num_tx_failures(Globals), CurrentTimers,
         radio_tuning_code)

NextCal ==
    \/ InitInitialRxSweep
    \/ InitRemainingSweeps
    \/ StartInitialRxSweep
    \/ InitialRxTimerCb
    \/ EndInitialRxSweep
    \/ RxFailure
    \/ RxSuccess
    \/ TxFailure
    \/ TxSuccess
    \/ ResetNumTxFailures

SpecCal == InitCal /\ [][NextCal]_vars

----------------------------------------------------------------------------
(* The initial RX sweep as a state machine: the engine is initialised and  *)
(* started, the timer expires while no frame arrives, a frame ends the     *)
(* sweep and the remaining sweeps are initialised.  visited holds the RX   *)
(* codes the initial channel has taken since the initialisation.           *)

InitialRxBoardInfos ==
    {BoardInfo(22, 22, 15), BoardInfo(23, 23, 15), BoardInfo(22, 23, 15),
     BoardInfo(31, 31, 15)}

InitInitialRx ==
    /\ build \in Builds
    /\ board_info \in InitialRxBoardInfos
    /\ tuning_code = TuningCode(TUNING_MIN_CODE, TUNING_MIN_CODE,
                                TUNING_MIN_CODE)
    /\ AlgebraIdle
    /\ SweepIdle
    /\ CalStaticsInit
    /\ ProgramsIdle
    /\ FeedbackIdle

InitialRxCode(g) ==
    g.channel_infos[CHANNEL_CAL_INITIAL_CHANNEL].rx.tuning_code

InitialRxInit ==
    /\ last_call = NoCall
    /\ Do("init_initial_rx_sweep", CHANNEL_CAL_INITIAL_CHANNEL,
          channel_cal_init_initial_rx_sweep(Globals),
          TimersAfterInit(CurrentTimers), radio_tuning_code)
    /\ visited' =
           <<InitialRxCode(channel_cal_init_initial_rx_sweep(Globals))>>
    /\ UNCHANGED sweep_config

InitialRxStart ==
    /\ last_call.name = "init_initial_rx_sweep"
    /\ Do("start_initial_rx_sweep", CHANNEL_CAL_INITIAL_CHANNEL, Globals,
          Timers(TRUE, stale_timer_scheduled),
          channel_cal_initial_rx_tune_radio(Globals))
    /\ UNCHANGED sweep_vars

\* The peer transmits nothing and the timer expires.
InitialRxTimerExpires ==
    /\ last_call.name \in {"start_initial_rx_sweep", "initial_rx_timer_cb"}
    /\ timer_scheduled
    /\ Len(visited) <= MaxTimerExpirations
    /\ Do("initial_rx_timer_cb", CHANNEL_CAL_INITIAL_CHANNEL,
          GlobalsAfterCb(Globals),
          TimersAfterCb(Globals, CurrentTimers, FALSE),
          RadioAfterCb(Globals, radio_tuning_code))
    /\ visited' = Append(visited, InitialRxCode(GlobalsAfterCb(Globals)))
    /\ UNCHANGED sweep_config

\* A valid frame arrives on the initial channel.
InitialRxFrame ==
    /\ last_call.name \in {"start_initial_rx_sweep", "initial_rx_timer_cb"}
    /\ Do("end_initial_rx_sweep", CHANNEL_CAL_INITIAL_CHANNEL,
          channel_cal_end_initial_rx_sweep(Globals),
          Timers(FALSE, stale_timer_scheduled), radio_tuning_code)
    /\ UNCHANGED sweep_vars

InitialRxRemaining ==
    /\ last_call.name = "end_initial_rx_sweep"
    /\ Do("init_remaining_sweeps", CHANNEL_CAL_INITIAL_CHANNEL,
          channel_cal_init_remaining_sweeps(Globals), CurrentTimers,
          radio_tuning_code)
    /\ UNCHANGED sweep_vars

NextInitialRx ==
    \/ InitialRxInit
    \/ InitialRxStart
    \/ InitialRxTimerExpires
    \/ InitialRxFrame
    \/ InitialRxRemaining

SpecInitialRx == InitInitialRx /\ [][NextInitialRx]_vars

----------------------------------------------------------------------------
(* channel.c: the registry of tuning codes *)

CHANNEL_MODE_TX == "CHANNEL_MODE_TX"

CHANNEL_MODE_RX == "CHANNEL_MODE_RX"

Registry == [tx |-> g_channel_tx_tuning_codes, rx |-> g_channel_rx_tuning_codes]

\* Mutant: an unknown mode is taken for RX.
channel_set_tuning_code_default_rx(r, channel, mode, code) ==
    IF mode = CHANNEL_MODE_TX
    THEN [r EXCEPT !.tx[channel] = code]
    ELSE [r EXCEPT !.rx[channel] = code]

\* The registry after channel_set_tuning_code; any other mode is ignored.
channel_set_tuning_code(r, channel, mode, code) ==
    IF mode = CHANNEL_MODE_TX
    THEN [r EXCEPT !.tx[channel] = code]
    ELSE IF mode = CHANNEL_MODE_RX
    THEN [r EXCEPT !.rx[channel] = code]
    ELSE r

\* The code channel_get_tuning_code leaves in *tuning_code, which held out.
channel_get_tuning_code(r, channel, mode, out) ==
    IF mode = CHANNEL_MODE_TX
    THEN r.tx[channel]
    ELSE IF mode = CHANNEL_MODE_RX
    THEN r.rx[channel]
    ELSE out

----------------------------------------------------------------------------
(* The registry on its own: channel_set_tuning_code and                    *)
(* channel_get_tuning_code called in any order.  channel_history keeps the *)
(* arguments of the last call, in code the code passed to the set or left  *)
(* in *tuning_code by the get, in out what *tuning_code held before, and   *)
(* in last_set the code last passed to a set of each entry.                *)

CHANNEL_MODE_INVALID == "CHANNEL_MODE_INVALID"

ChannelModes == {CHANNEL_MODE_INVALID, CHANNEL_MODE_TX, CHANNEL_MODE_RX}

RegistryChannels == {MIN_CHANNEL, MAX_CHANNEL}

RegistryCodes == {TuningCode(20, 15, 10), TuningCode(31, 31, 31)}

InitChannel ==
    /\ build \in Builds
    /\ tuning_code = TuningCode(TUNING_MIN_CODE, TUNING_MIN_CODE,
                                TUNING_MIN_CODE)
    /\ AlgebraIdle
    /\ SweepIdle
    /\ CalIdle
    /\ ProgramsIdle

\* The entry of the registry a set of the mode writes, if any.
LastSetAfter(last_set, channel, mode, code) ==
    IF mode = CHANNEL_MODE_TX
    THEN [last_set EXCEPT !.tx[channel] = code]
    ELSE IF mode = CHANNEL_MODE_RX
    THEN [last_set EXCEPT !.rx[channel] = code]
    ELSE last_set

ChannelSetTuningCode ==
    \E channel \in RegistryChannels :
        \E mode \in ChannelModes :
            \E code \in RegistryCodes :
                LET registry ==
                        channel_set_tuning_code(Registry, channel, mode, code)
                IN  /\ g_channel_tx_tuning_codes' = registry.tx
                    /\ g_channel_rx_tuning_codes' = registry.rx
                    /\ channel_history' =
                           [name |-> "set_tuning_code",
                            channel |-> channel,
                            mode |-> mode,
                            code |-> code,
                            out |-> code,
                            last_set |->
                                LastSetAfter(channel_history.last_set,
                                             channel, mode, code)]
                    /\ UNCHANGED <<build, program_vars,
                                   tuning_code, algebra_vars,
                                   sweep_vars, cal_vars,
                                   g_tuning_feedback_channel_infos,
                                   g_tuning_feedback_if_estimates,
                                   if_estimate, stream>>

\* *tuning_code holds out when channel_get_tuning_code is called.
ChannelGetTuningCode ==
    \E channel \in RegistryChannels :
        \E mode \in ChannelModes :
            \E out \in RegistryCodes :
                /\ channel_history' =
                       [channel_history EXCEPT
                          !.name = "get_tuning_code",
                          !.channel = channel,
                          !.mode = mode,
                          !.out = out,
                          !.code = channel_get_tuning_code(Registry, channel,
                                                           mode, out)]
                /\ UNCHANGED <<build, program_vars,
                               tuning_code, algebra_vars, sweep_vars,
                               cal_vars, channel_vars,
                               g_tuning_feedback_channel_infos,
                               g_tuning_feedback_if_estimates,
                               if_estimate, stream>>

NextChannel == ChannelSetTuningCode \/ ChannelGetTuningCode

SpecChannel == InitChannel /\ [][NextChannel]_vars

----------------------------------------------------------------------------
(* tuning.c of bsp/boards/scum: the single steps tuning_feedback.c uses *)

\* tuning_increment_code: one step of the sweep over the whole code space.
tuning_increment_code(tc) ==
    LET fine == U8(tc.fine + 1)
        mid == U8(tc.mid + 1)
        coarse == U8(tc.coarse + 1)
    IN  IF fine <= TUNING_MAX_CODE
        THEN [tc EXCEPT !.fine = fine]
        ELSE IF mid <= TUNING_MAX_CODE
        THEN [tc EXCEPT !.fine = TUNING_MIN_CODE, !.mid = mid]
        ELSE [fine |-> TUNING_MIN_CODE,
              mid |-> TUNING_MIN_CODE,
              coarse |-> IF coarse > TUNING_MAX_CODE
                         THEN TUNING_MIN_CODE
                         ELSE coarse]

\* tuning_increment_multiple_codes: num_codes times the step of the sweep
\* over the whole code space (the loop body is the step that
\* tuning_increment_code makes); next is the code after one iteration, the
\* result that of the remaining n - 1 iterations on it.
RECURSIVE tuning_increment_multiple_codes(_, _)
tuning_increment_multiple_codes(tc, n) ==
    IF n = 0
    THEN tc
    ELSE CHOOSE result \in
             {tuning_increment_multiple_codes(next, n - 1) :
                next \in {tuning_increment_code(tc)}} : TRUE

\* tuning_decrement_multiple_codes: the body has no loop and never reads
\* num_codes.
tuning_decrement_multiple_codes(tc, n) ==
    IF tc.fine <= TUNING_MIN_CODE
    THEN IF tc.mid <= TUNING_MIN_CODE
         THEN [fine |-> TUNING_MAX_CODE,
               mid |-> TUNING_MAX_CODE,
               coarse |-> IF tc.coarse > TUNING_MIN_CODE
                          THEN U8(tc.coarse - 1)
                          ELSE tc.coarse]
         ELSE [tc EXCEPT !.fine = TUNING_MAX_CODE, !.mid = U8(tc.mid - 1)]
    ELSE [tc EXCEPT !.fine = U8(tc.fine - 1)]

\* tuning_decrement_code: tuning_decrement_multiple_codes with num_codes 1.
tuning_decrement_code(tc) == tuning_decrement_multiple_codes(tc, 1)

\* n successive calls of tuning_decrement_code.
RECURSIVE DecrementCodeTimes(_, _)
DecrementCodeTimes(tc, n) ==
    IF n = 0
    THEN tc
    ELSE CHOOSE result \in
             {DecrementCodeTimes(next, n - 1) :
                next \in {tuning_decrement_code(tc)}} : TRUE

\* The place of a code in the code space, (0,0,0) first.
CodeIndex(tc) ==
    (tc.coarse * (TUNING_MAX_CODE + 1) + tc.mid) * (TUNING_MAX_CODE + 1)
        + tc.fine

----------------------------------------------------------------------------
(* The multiple-code steps of tuning.c applied to a code: one call, or an  *)
(* increment and the decrement to undo it.  The coarse and the mid code    *)
(* start at or next to the ends of their range, where the steps carry.     *)

PlainNumCodes == 0..TUNING_MAX_CODE

InitPlain ==
    /\ build = "tuning_c"
    /\ input \in {TuningCode(c, m, f) :
                    c \in CoarseCodes,
                    m \in CoarseCodes,
                    f \in TUNING_MIN_CODE..TUNING_MAX_CODE}
    /\ tuning_code = input
    /\ num_codes = 0
    /\ num_codes_2 = 0
    /\ applied = <<>>
    /\ SweepIdle
    /\ CalIdle
    /\ ProgramsIdle

IncrementMultipleCodes ==
    \E n \in PlainNumCodes :
        First("increment_multiple", n,
              tuning_increment_multiple_codes(tuning_code, n))

\* Called first, or to undo the increment just made.
DecrementMultipleCodes ==
    \/ \E n \in PlainNumCodes :
        First("decrement_multiple", n,
              tuning_decrement_multiple_codes(tuning_code, n))
    \/ Second("increment_multiple", "decrement_multiple", num_codes,
              tuning_decrement_multiple_codes(tuning_code, num_codes))

NextPlain == IncrementMultipleCodes \/ DecrementMultipleCodes

SpecPlain == InitPlain /\ [][NextPlain]_vars

----------------------------------------------------------------------------
(* The tuning feedback: the one at the end of channel_cal.c, with a window *)
(* of IF estimates per channel, and tuning_feedback.c, with one window for *)
(* all channels, compiled with tuning.c of bsp/boards/scum (build          *)
(* "tuning_c").                                                            *)

FeedbackBuilds == Builds \cup {"tuning_c"}

TUNING_FEEDBACK_NOMINAL_IF_COUNT == 500

TUNING_FEEDBACK_MAX_IF_OFFSET == 25

TUNING_FEEDBACK_MIN_NUM_IF_ESTIMATES_TO_AVERAGE ==
    TUNING_FEEDBACK_NUM_IF_ESTIMATES_TO_AVERAGE \div 3

tuning_feedback_increment_if_estimate_index(info) ==
    LET index == (info.if_estimate_index + 1)
                     % TUNING_FEEDBACK_NUM_IF_ESTIMATES_TO_AVERAGE
    IN  [info EXCEPT
           !.if_estimate_index = index,
           !.if_estimates_full_array = IF index = 0 THEN TRUE ELSE @]

tuning_feedback_write_if_estimate(info, estimate) ==
    tuning_feedback_increment_if_estimate_index(
        [info EXCEPT !.if_estimates[info.if_estimate_index] = estimate])

tuning_feedback_num_if_estimates(info) ==
    IF info.if_estimates_full_array
    THEN TUNING_FEEDBACK_NUM_IF_ESTIMATES_TO_AVERAGE
    ELSE info.if_estimate_index

\* The sum of if_estimates[0 .. n-1].  It is accumulated in a uint32_t, which
\* ten of the estimates fed here are far from overflowing.
RECURSIVE IfEstimateSum(_, _)
IfEstimateSum(info, n) ==
    IF n = 0
    THEN 0
    ELSE IfEstimateSum(info, n - 1) + info.if_estimates[n - 1]

\* Mutant: the sum is divided by the size of the array.
tuning_feedback_average_if_estimates_of_array(info) ==
    IfEstimateSum(info, tuning_feedback_num_if_estimates(info))
        \div TUNING_FEEDBACK_NUM_IF_ESTIMATES_TO_AVERAGE

\* Called with at least TUNING_FEEDBACK_MIN_NUM_IF_ESTIMATES_TO_AVERAGE
\* estimates in the array.
tuning_feedback_average_if_estimates(info) ==
    IfEstimateSum(info, tuning_feedback_num_if_estimates(info))
        \div tuning_feedback_num_if_estimates(info)

\* Mutant: the array is left as it is.
tuning_feedback_reset_if_estimates_keeps_array(info) == info

tuning_feedback_reset_if_estimates(info) ==
    [info EXCEPT !.if_estimates_full_array = FALSE, !.if_estimate_index = 0]

\* The step taken when the IF estimate is too high.
FeedbackIncrement(tc) ==
    IF build = "tuning_c"
    THEN tuning_increment_code(tc)
    ELSE tuning_increment_fine_codes(tc, 1)

\* The step taken when the IF estimate is too low.
FeedbackDecrement(tc) ==
    IF build = "tuning_c"
    THEN tuning_decrement_code(tc)
    ELSE tuning_decrement_fine_codes(tc, 1)

\* Mutant: the steps are exchanged, down when the average is too high.
tuning_feedback_adjust_reversed(info, tc, estimate) ==
    IF estimate = 0
    THEN [info |-> info, tuning_code |-> tc]
    ELSE LET written == tuning_feedback_write_if_estimate(info, estimate)
         IN  IF tuning_feedback_num_if_estimates(written) <
                    TUNING_FEEDBACK_MIN_NUM_IF_ESTIMATES_TO_AVERAGE
             THEN [info |-> written, tuning_code |-> tc]
             ELSE LET if_estimate_average ==
                          tuning_feedback_average_if_estimates(written)
                  IN  IF if_estimate_average >
                             TUNING_FEEDBACK_NOMINAL_IF_COUNT
                                 + TUNING_FEEDBACK_MAX_IF_OFFSET
                      THEN [info |->
                                tuning_feedback_reset_if_estimates(written),
                            tuning_code |-> FeedbackDecrement(tc)]
                      ELSE IF if_estimate_average <
                                  TUNING_FEEDBACK_NOMINAL_IF_COUNT
                                      - TUNING_FEEDBACK_MAX_IF_OFFSET
                      THEN [info |->
                                tuning_feedback_reset_if_estimates(written),
                            tuning_code |-> FeedbackIncrement(tc)]
                      ELSE [info |-> written, tuning_code |-> tc]

\* Mutant: an estimate of 0 is written to the window like any other.
tuning_feedback_adjust_accepts_zero(info, tc, estimate) ==
    LET written == tuning_feedback_write_if_estimate(info, estimate)
    IN  IF tuning_feedback_num_if_estimates(written) <
               TUNING_FEEDBACK_MIN_NUM_IF_ESTIMATES_TO_AVERAGE
        THEN [info |-> written, tuning_code |-> tc]
        ELSE LET if_estimate_average ==
                     tuning_feedback_average_if_estimates(written)
             IN  IF if_estimate_average >
                        TUNING_FEEDBACK_NOMINAL_IF_COUNT
                            + TUNING_FEEDBACK_MAX_IF_OFFSET
                 THEN [info |->
                           tuning_feedback_reset_if_estimates(written),
                       tuning_code |-> FeedbackIncrement(tc)]
                 ELSE IF if_estimate_average <
                             TUNING_FEEDBACK_NOMINAL_IF_COUNT
                                 - TUNING_FEEDBACK_MAX_IF_OFFSET
                 THEN [info |->
                           tuning_feedback_reset_if_estimates(written),
                       tuning_code |-> FeedbackDecrement(tc)]
                 ELSE [info |-> written, tuning_code |-> tc]

\* The body of tuning_feedback_adjust_rx on the window info of the channel
\* and its RX code in the registry: the window and the RX code it leaves.
tuning_feedback_adjust(info, tc, estimate) ==
    IF estimate = 0
    THEN [info |-> info, tuning_code |-> tc]
    ELSE LET written == tuning_feedback_write_if_estimate(info, estimate)
         IN  IF tuning_feedback_num_if_estimates(written) <
                    TUNING_FEEDBACK_MIN_NUM_IF_ESTIMATES_TO_AVERAGE
             THEN [info |-> written, tuning_code |-> tc]
             ELSE LET if_estimate_average ==
                          tuning_feedback_average_if_estimates(written)
                  IN  IF if_estimate_average >
                             TUNING_FEEDBACK_NOMINAL_IF_COUNT
                                 + TUNING_FEEDBACK_MAX_IF_OFFSET
                      THEN [info |->
                                tuning_feedback_reset_if_estimates(written),
                            tuning_code |-> FeedbackIncrement(tc)]
                      ELSE IF if_estimate_average <
                                  TUNING_FEEDBACK_NOMINAL_IF_COUNT
                                      - TUNING_FEEDBACK_MAX_IF_OFFSET
                      THEN [info |->
                                tuning_feedback_reset_if_estimates(written),
                            tuning_code |-> FeedbackDecrement(tc)]
                      ELSE [info |-> written, tuning_code |-> tc]

\* The window tuning_feedback_adjust_rx uses for the channel.
FeedbackWindow(channel) ==
    IF build = "tuning_c"
    THEN g_tuning_feedback_if_estimates
    ELSE g_tuning_feedback_channel_infos[channel]

\* Mutant: nothing is done for a channel whose RX calibration is not
\* finished.
tuning_feedback_adjust_rx_if_calibrated(channel, estimate) ==
    IF g_channel_cal_channel_infos[channel].rx.calibrated
    THEN tuning_feedback_adjust(
             FeedbackWindow(channel),
             channel_get_tuning_code(Registry, channel, CHANNEL_MODE_RX,
                                     TuningCode(0, 0, 0)),
             estimate)
    ELSE [info |-> FeedbackWindow(channel),
          tuning_code |-> g_channel_rx_tuning_codes[channel]]

\* tuning_feedback_adjust_rx: it reads the window of the channel and the RX
\* code of the registry, and nothing of the calibration engine.
tuning_feedback_adjust_rx(channel, estimate) ==
    tuning_feedback_adjust(
        FeedbackWindow(channel),
        channel_get_tuning_code(Registry, channel, CHANNEL_MODE_RX,
                                TuningCode(0, 0, 0)),
        estimate)

\* The statics after tuning_feedback_adjust_rx(channel, estimate).
FeedbackAdjustRx(channel, estimate) ==
    LET result == tuning_feedback_adjust_rx(channel, estimate)
        registry == channel_set_tuning_code(Registry, channel,
                                            CHANNEL_MODE_RX,
                                            result.tuning_code)
    IN  /\ if_estimate' = estimate
        /\ IF build = "tuning_c"
           THEN /\ g_tuning_feedback_if_estimates' = result.info
                /\ UNCHANGED g_tuning_feedback_channel_infos
           ELSE /\ g_tuning_feedback_channel_infos' =
                       [g_tuning_feedback_channel_infos EXCEPT
                          ![channel] = result.info]
                /\ UNCHANGED g_tuning_feedback_if_estimates
        /\ g_channel_rx_tuning_codes' = registry.rx
        /\ g_channel_tx_tuning_codes' = registry.tx

----------------------------------------------------------------------------
(* The feedback next to the calibration engine: the MAC layer publishes    *)
(* tuning codes to the registry, reports RX successes to the engine and    *)
(* feeds IF estimates to the feedback, in any order.                       *)

FeedbackChannels ==
    {CHANNEL_CAL_INITIAL_CHANNEL, CHANNEL_CAL_INITIAL_CHANNEL + 1}

\* The codes published to the registry.
FeedbackCodes == {TuningCode(20, 15, 10)}

\* The IF estimates fed: invalid, too low, nominal, too high.
IfEstimates ==
    {0,
     TUNING_FEEDBACK_NOMINAL_IF_COUNT - TUNING_FEEDBACK_MAX_IF_OFFSET - 1,
     TUNING_FEEDBACK_NOMINAL_IF_COUNT,
     TUNING_FEEDBACK_NOMINAL_IF_COUNT + TUNING_FEEDBACK_MAX_IF_OFFSET + 1}

InitFeedback ==
    /\ build \in Builds
    /\ board_info = BoardInfo(0, 0, 0)
    /\ tuning_code = TuningCode(TUNING_MIN_CODE, TUNING_MIN_CODE,
                                TUNING_MIN_CODE)
    /\ AlgebraIdle
    /\ SweepIdle
    /\ CalStaticsInit
    /\ ProgramsIdle
    /\ FeedbackIdle

\* A call outside the engine: the engine's statics stay as they are.
FeedbackCall(name, channel) ==
    /\ num_calls < MaxCalls
    /\ num_calls' = num_calls + 1
    /\ last_call' = [name |-> name, channel |-> channel]
    /\ UNCHANGED <<build, program_vars,
                   tuning_code, algebra_vars, sweep_vars, board_info,
                   cal_globals, timer_scheduled, stale_timer_scheduled,
                   radio_tuning_code, stream, channel_history>>

SetTuningCode ==
    \E channel \in FeedbackChannels :
        \E mode \in {CHANNEL_MODE_TX, CHANNEL_MODE_RX} :
            \E code \in FeedbackCodes :
                LET registry ==
                        channel_set_tuning_code(Registry, channel, mode, code)
                IN  /\ FeedbackCall("set_tuning_code", channel)
                    /\ g_channel_tx_tuning_codes' = registry.tx
                    /\ g_channel_rx_tuning_codes' = registry.rx
                    /\ UNCHANGED <<g_tuning_feedback_channel_infos,
                                   g_tuning_feedback_if_estimates,
                                   if_estimate>>

\* Mutant: channel_cal_rx_success resets the window of the channel.
FeedbackRxSuccessResetsWindow ==
    \E channel \in FeedbackChannels :
        /\ num_calls < MaxCalls
        /\ EngineCall("rx_success", channel,
                      channel_cal_rx_success(Globals, channel),
                      CurrentTimers, radio_tuning_code)
        /\ g_tuning_feedback_channel_infos' =
               [g_tuning_feedback_channel_infos EXCEPT
                  ![channel] = tuning_feedback_reset_if_estimates(@)]
        /\ UNCHANGED <<sweep_vars, channel_vars,
                       g_tuning_feedback_if_estimates, if_estimate, stream,
                       channel_history>>

\* channel_cal_rx_success, which leaves the registry and the windows alone.
FeedbackRxSuccess ==
    \E channel \in FeedbackChannels :
        /\ num_calls < MaxCalls
        /\ EngineCall("rx_success", channel,
                      channel_cal_rx_success(Globals, channel),
                      CurrentTimers, radio_tuning_code)
        /\ UNCHANGED <<sweep_vars, feedback_vars>>

AdjustRx ==
    \E channel \in FeedbackChannels :
        \E estimate \in IfEstimates :
            /\ FeedbackCall("adjust_rx", channel)
            /\ FeedbackAdjustRx(channel, estimate)

NextFeedback == SetTuningCode \/ FeedbackRxSuccess \/ AdjustRx

SpecFeedback == InitFeedback /\ [][NextFeedback]_vars

----------------------------------------------------------------------------
(* The feedback fed for two channels in turn, in each of its builds: the   *)
(* MAC layer publishes tuning codes to the registry and feeds IF estimates *)
(* for either channel, in any order.                                       *)

InitFeedbackChannels ==
    /\ build \in FeedbackBuilds
    /\ board_info = BoardInfo(0, 0, 0)
    /\ tuning_code = TuningCode(TUNING_MIN_CODE, TUNING_MIN_CODE,
                                TUNING_MIN_CODE)
    /\ AlgebraIdle
    /\ SweepIdle
    /\ CalStaticsInit
    /\ ProgramsIdle
    /\ FeedbackIdle

NextFeedbackChannels == SetTuningCode \/ AdjustRx

SpecFeedbackChannels == InitFeedbackChannels /\ [][NextFeedbackChannels]_vars

----------------------------------------------------------------------------
(* A stream of IF estimates fed to one channel, from empty windows.  The   *)
(* estimates are drawn from stream.estimates; stream.start_code is the RX  *)
(* code the registry holds for the channel when the stream starts.         *)

StreamEstimates ==
    {{TUNING_FEEDBACK_NOMINAL_IF_COUNT},
     {TUNING_FEEDBACK_NOMINAL_IF_COUNT - TUNING_FEEDBACK_MAX_IF_OFFSET,
      TUNING_FEEDBACK_NOMINAL_IF_COUNT + TUNING_FEEDBACK_MAX_IF_OFFSET},
     {TUNING_FEEDBACK_NOMINAL_IF_COUNT + TUNING_FEEDBACK_MAX_IF_OFFSET + 1},
     {TUNING_FEEDBACK_NOMINAL_IF_COUNT - TUNING_FEEDBACK_MAX_IF_OFFSET - 1},
     {530},
     {470},
     {0, TUNING_FEEDBACK_NOMINAL_IF_COUNT},
     {0, TUNING_FEEDBACK_NOMINAL_IF_COUNT + TUNING_FEEDBACK_MAX_IF_OFFSET + 1}}

StreamStartCodes ==
    {TuningCode(20, 15, 10), TuningCode(20, 15, 30), TuningCode(20, 31, 31)}

InitFeedbackStream ==
    /\ build \in FeedbackBuilds
    /\ board_info = BoardInfo(0, 0, 0)
    /\ tuning_code = TuningCode(TUNING_MIN_CODE, TUNING_MIN_CODE,
                                TUNING_MIN_CODE)
    /\ AlgebraIdle
    /\ SweepIdle
    /\ CalStaticsInit
    /\ ProgramsIdle
    /\ FeedbackStaticsInit
    /\ if_estimate = 0
    /\ channel_history = NoChannelHistory
    /\ stream \in [channel : FeedbackChannels,
                   estimates : StreamEstimates,
                   start_code : StreamStartCodes,
                   num_samples : {0}]
    /\ g_channel_tx_tuning_codes = [c \in Channels |-> TuningCode(0, 0, 0)]
    /\ g_channel_rx_tuning_codes =
           [c \in Channels |->
               IF c = stream.channel
               THEN stream.start_code
               ELSE TuningCode(0, 0, 0)]

FeedStream ==
    /\ stream.num_samples < MaxStreamLength
    /\ \E estimate \in stream.estimates :
           FeedbackAdjustRx(stream.channel, estimate)
    /\ stream' = [stream EXCEPT !.num_samples = @ + 1]
    /\ UNCHANGED <<build, program_vars,
                   tuning_code, algebra_vars, sweep_vars, cal_vars,
                   channel_history>>

NextFeedbackStream == FeedStream

SpecFeedbackStream == InitFeedbackStream /\ [][NextFeedbackStream]_vars

----------------------------------------------------------------------------
(* The peer coordinator (OpenMote), unnamed/part_000: the averaging of the  *)
(* recorded codes, the radio and timer callbacks and the main loop.        *)
(* recorded is the buffer g_channel_cal_scum_tx_tuning_codes_for_channel,  *)
(* held as the sequence of the entries written since the count was reset:  *)
(* recorded[i + 1] is entry i of the C array.                              *)

\* A while loop that is left after one entry: the run is cut after its
\* second entry.
AverageRunEndOneStep(recorded, num, i, first) ==
    IF /\ i < num - 1
       /\ recorded[i + 2].coarse = first.coarse
       /\ recorded[i + 2].mid = first.mid
    THEN i + 1
    ELSE i

\* The inner while loop of the averaging: from entry i, the index of the
\* last entry of the run of entries with the coarse and mid codes of first.
RECURSIVE AverageRunEnd(_, _, _, _)
AverageRunEnd(recorded, num, i, first) ==
    IF /\ i < num - 1
       /\ recorded[i + 2].coarse = first.coarse
       /\ recorded[i + 2].mid = first.mid
    THEN AverageRunEnd(recorded, num, i + 1, first)
    ELSE i

\* The for loop of the averaging, from entry i and output slot j on.
RECURSIVE AverageFrom(_, _, _, _, _)
AverageFrom(codes, recorded, num, i, j) ==
    IF ~(i < num)
    THEN codes
    ELSE LET first == recorded[i + 1]
             last == AverageRunEnd(recorded, num, i, first)
             averaged ==
                 [first EXCEPT
                     !.fine = (first.fine + recorded[last + 1].fine) \div 2]
             written == [codes EXCEPT ![j] = averaged]
         IN  IF j + 1 >= CHANNEL_CAL_MAX_NUM_TX_TUNING_CODES_PER_CHANNEL
             THEN written
             ELSE AverageFrom(written, recorded, num, last + 1, j + 1)

\* channel_cal_average_scum_tx_tuning_codes_for_channel: the row of the
\* current channel in g_channel_cal_scum_tx_tuning_codes after the call.
channel_cal_average_scum_tx_tuning_codes_for_channel(codes, recorded, num) ==
    AverageFrom(codes, recorded, num, 0, 0)

\* The step of the protocol a state belongs to.
PeerStepOf(state) ==
    CASE state \in {CHANNEL_CAL_STATE_RX, CHANNEL_CAL_STATE_RX_IDLE,
                    CHANNEL_CAL_STATE_RX_RECEIVED} -> "step 1"
      [] state \in {CHANNEL_CAL_STATE_TX, CHANNEL_CAL_STATE_RX_ACK,
                    CHANNEL_CAL_STATE_RX_ACK_IDLE,
                    CHANNEL_CAL_STATE_RX_ACK_RECEIVED} -> "step 2"
      [] state \in {CHANNEL_CAL_STATE_SMART_STAKE_RX,
                    CHANNEL_CAL_STATE_SMART_STAKE_RX_IDLE,
                    CHANNEL_CAL_STATE_SMART_STAKE_RX_RECEIVED} -> "SmartStake"
      [] OTHER -> "none"

\* The bookkeeping of a step: its name, what the main loop read from the
\* packet buffer, the frame that caused the last transition into a RECEIVED
\* state, and the (step, channel) pair when the step changes it.
PeerLog(name, read, caused_by) ==
    /\ peer_step' = [name |-> name, read |-> read, caused_by |-> caused_by]
    /\ LET now == [step |-> PeerStepOf(g_channel_cal_state'),
                   channel |-> g_channel_cal_channel']
       IN  protocol' =
               IF protocol # <<>> /\ protocol[Len(protocol)] = now
               THEN protocol
               ELSE Append(protocol, now)

\* A timer callback that averages before it looks at the state, so on every
\* expiry.
channel_cal_timer_callback_averages_first ==
    /\ sctimer # "off"
    /\ g_channel_cal_scum_tx_tuning_codes' =
           [g_channel_cal_scum_tx_tuning_codes EXCEPT
               ![g_channel_cal_channel] =
                   channel_cal_average_scum_tx_tuning_codes_for_channel(
                       @,
                       g_channel_cal_scum_tx_tuning_codes_for_channel,
                       g_channel_cal_scum_tx_num_received_tuning_codes_for_channel)]
    /\ CASE g_channel_cal_state = CHANNEL_CAL_STATE_RX_IDLE ->
              IF U8(g_channel_cal_channel + 1) > CHANNEL_CAL_CHANNEL_END
              THEN /\ g_channel_cal_channel' = CHANNEL_CAL_CHANNEL_START
                   /\ g_channel_cal_state' = CHANNEL_CAL_STATE_TX
                   /\ sctimer' = "off"
                   /\ UNCHANGED
                          <<g_channel_cal_scum_tx_tuning_codes_for_channel,
                            g_channel_cal_scum_tx_num_received_tuning_codes_for_channel>>
              ELSE /\ g_channel_cal_channel' = U8(g_channel_cal_channel + 1)
                   /\ g_channel_cal_scum_tx_num_received_tuning_codes_for_channel' = 0
                   /\ g_channel_cal_scum_tx_tuning_codes_for_channel' = <<>>
                   /\ g_channel_cal_state' = CHANNEL_CAL_STATE_RX
                   /\ sctimer' = CHANNEL_CAL_RX_TIMEOUT
         [] g_channel_cal_state = CHANNEL_CAL_STATE_RX_ACK_IDLE ->
              /\ g_channel_cal_state' = CHANNEL_CAL_STATE_TX
              /\ sctimer' = "off"
              /\ UNCHANGED
                     <<g_channel_cal_channel,
                       g_channel_cal_scum_tx_tuning_codes_for_channel,
                       g_channel_cal_scum_tx_num_received_tuning_codes_for_channel>>
         [] OTHER ->
              /\ sctimer' = "off"
              /\ UNCHANGED
                     <<g_channel_cal_state, g_channel_cal_channel,
                       g_channel_cal_scum_tx_tuning_codes_for_channel,
                       g_channel_cal_scum_tx_num_received_tuning_codes_for_channel>>
    /\ PeerLog("channel_cal_timer_callback", peer_step.read,
               peer_step.caused_by)
    /\ UNCHANGED <<g_channel_cal_rx_packet, g_channel_cal_rx_packet_crc,
                   g_smart_stake_rx_packet, end_frame_cb, num_frames>>
    /\ UNCHANGED <<firmware_vars, radio_app_vars>>

\* channel_cal_timer_callback, called when the armed compare expires; the
\* compare fires once, and the callback re-arms it only when it moves on to
\* the next channel of step 1.
channel_cal_timer_callback ==
    /\ sctimer # "off"
    /\ CASE g_channel_cal_state = CHANNEL_CAL_STATE_RX_IDLE ->
              /\ g_channel_cal_scum_tx_tuning_codes' =
                     [g_channel_cal_scum_tx_tuning_codes EXCEPT
                         ![g_channel_cal_channel] =
                             channel_cal_average_scum_tx_tuning_codes_for_channel(
                                 @,
                                 g_channel_cal_scum_tx_tuning_codes_for_channel,
                                 g_channel_cal_scum_tx_num_received_tuning_codes_for_channel)]
              /\ IF U8(g_channel_cal_channel + 1) > CHANNEL_CAL_CHANNEL_END
                 THEN /\ g_channel_cal_channel' = CHANNEL_CAL_CHANNEL_START
                      /\ g_channel_cal_state' = CHANNEL_CAL_STATE_TX
                      /\ sctimer' = "off"
                      /\ UNCHANGED
                             <<g_channel_cal_scum_tx_tuning_codes_for_channel,
                               g_channel_cal_scum_tx_num_received_tuning_codes_for_channel>>
                 ELSE /\ g_channel_cal_channel' = U8(g_channel_cal_channel + 1)
                      /\ g_channel_cal_scum_tx_num_received_tuning_codes_for_channel' = 0
                      /\ g_channel_cal_scum_tx_tuning_codes_for_channel' = <<>>
                      /\ g_channel_cal_state' = CHANNEL_CAL_STATE_RX
                      /\ sctimer' = CHANNEL_CAL_RX_TIMEOUT
         [] g_channel_cal_state = CHANNEL_CAL_STATE_RX_ACK_IDLE ->
              /\ g_channel_cal_state' = CHANNEL_CAL_STATE_TX
              /\ sctimer' = "off"
              /\ UNCHANGED
                     <<g_channel_cal_channel,
                       g_channel_cal_scum_tx_tuning_codes,
                       g_channel_cal_scum_tx_tuning_codes_for_channel,
                       g_channel_cal_scum_tx_num_received_tuning_codes_for_channel>>
         [] OTHER ->
              /\ sctimer' = "off"
              /\ UNCHANGED
                     <<g_channel_cal_state, g_channel_cal_channel,
                       g_channel_cal_scum_tx_tuning_codes,
                       g_channel_cal_scum_tx_tuning_codes_for_channel,
                       g_channel_cal_scum_tx_num_received_tuning_codes_for_channel>>
    /\ PeerLog("channel_cal_timer_callback", peer_step.read,
               peer_step.caused_by)
    /\ UNCHANGED <<g_channel_cal_rx_packet, g_channel_cal_rx_packet_crc,
                   g_smart_stake_rx_packet, end_frame_cb, num_frames>>
    /\ UNCHANGED <<firmware_vars, radio_app_vars>>

\* The store g_channel_cal_scum_tx_tuning_codes_for_channel[num] = code of
\* the main loop. Nothing compares num with the length of the array: from
\* entry CHANNEL_CAL_MAX_NUM_RECORDED_TX_TUNING_CODES on the store goes to
\* the memory behind the array, which recorded holds as further entries.
RecordAt(recorded, num, code) ==
    IF num < Len(recorded)
    THEN [recorded EXCEPT ![num + 1] = code]
    ELSE Append(recorded, code)

\* The count after the store and the increment. A store behind the array is
\* undefined: it may leave the count alone, or land on the count, which is
\* declared right after the array, and leave one of the bytes of the code in
\* it before the increment.
RecordedCountAfter(num, code) ==
    IF num < CHANNEL_CAL_MAX_NUM_RECORDED_TX_TUNING_CODES
    THEN {U8(num + 1)}
    ELSE {U8(num + 1), U8(code.coarse + 1), U8(code.mid + 1),
          U8(code.fine + 1)}

\* The frames the radio hands to the end-frame callback: the fields of the
\* packet and whether its CRC is valid.
PeerFrameCodes == {TuningCode(0, 0, 0), TuningCode(22, 15, 5)}

PeerFrames ==
    [packet : [channel : CHANNEL_CAL_CHANNEL_START..CHANNEL_CAL_CHANNEL_END,
               command : {CHANNEL_CAL_COMMAND_NONE,
                          CHANNEL_CAL_COMMAND_CHANGE_CHANNEL},
               tuning_code : PeerFrameCodes],
     crc : BOOLEAN]

\* channel_cal_end_frame_callback, with the frame radio_getReceivedFrame
\* returns.
channel_cal_end_frame_callback(frame) ==
    IF g_channel_cal_state = CHANNEL_CAL_STATE_TX
    THEN /\ g_channel_cal_state' = CHANNEL_CAL_STATE_RX_ACK
         /\ UNCHANGED <<g_channel_cal_rx_packet, g_channel_cal_rx_packet_crc>>
         /\ PeerLog("channel_cal_end_frame_callback", peer_step.read,
                    peer_step.caused_by)
    ELSE /\ g_channel_cal_rx_packet' = frame.packet
         /\ g_channel_cal_rx_packet_crc' = frame.crc
         /\ g_channel_cal_state' =
                IF ~frame.crc
                THEN g_channel_cal_state
                ELSE IF g_channel_cal_state = CHANNEL_CAL_STATE_RX_IDLE
                THEN CHANNEL_CAL_STATE_RX_RECEIVED
                ELSE IF g_channel_cal_state = CHANNEL_CAL_STATE_RX_ACK_IDLE
                THEN CHANNEL_CAL_STATE_RX_ACK_RECEIVED
                ELSE g_channel_cal_state
         /\ PeerLog("channel_cal_end_frame_callback", peer_step.read,
                    IF g_channel_cal_state' # g_channel_cal_state
                    THEN frame.packet
                    ELSE peer_step.caused_by)

\* smart_stake_end_frame_callback, with the frame radio_getReceivedFrame
\* returns.
smart_stake_end_frame_callback(frame) ==
    /\ g_smart_stake_rx_packet' = frame.packet
    /\ g_channel_cal_state' =
           IF /\ frame.crc
              /\ g_channel_cal_state = CHANNEL_CAL_STATE_SMART_STAKE_RX_IDLE
           THEN CHANNEL_CAL_STATE_SMART_STAKE_RX_RECEIVED
           ELSE g_channel_cal_state
    /\ UNCHANGED <<g_channel_cal_rx_packet, g_channel_cal_rx_packet_crc>>
    /\ PeerLog("smart_stake_end_frame_callback", peer_step.read,
               IF g_channel_cal_state' # g_channel_cal_state
               THEN frame.packet
               ELSE peer_step.caused_by)

\* The radio raises an end-frame event: it calls the callback registered
\* last with radio_setEndFrameCb.
PeerEndFrame ==
    /\ num_frames < MaxPeerFrames
    /\ num_frames' = num_frames + 1
    /\ UNCHANGED <<g_channel_cal_channel, g_channel_cal_scum_tx_tuning_codes,
                   g_channel_cal_scum_tx_tuning_codes_for_channel,
                   g_channel_cal_scum_tx_num_received_tuning_codes_for_channel,
                   end_frame_cb, sctimer>>
    /\ \E frame \in PeerFrames :
           CASE end_frame_cb = "channel_cal_end_frame_callback" ->
                    channel_cal_end_frame_callback(frame)
                    /\ UNCHANGED g_smart_stake_rx_packet
             [] end_frame_cb = "smart_stake_end_frame_callback" ->
                    smart_stake_end_frame_callback(frame)
    /\ UNCHANGED <<firmware_vars, radio_app_vars>>

\* One iteration of the while loop of mote_main that finds work to do: the
\* case of the switch for the current state.
PeerMainLoop ==
    /\ CASE g_channel_cal_state = CHANNEL_CAL_STATE_RX ->
              /\ g_channel_cal_state' = CHANNEL_CAL_STATE_RX_IDLE
              /\ UNCHANGED
                     <<g_channel_cal_channel, sctimer, end_frame_cb,
                       g_channel_cal_scum_tx_tuning_codes_for_channel,
                       g_channel_cal_scum_tx_num_received_tuning_codes_for_channel>>
              /\ PeerLog("mote_main", peer_step.read, peer_step.caused_by)
         [] g_channel_cal_state = CHANNEL_CAL_STATE_RX_RECEIVED ->
              LET code == g_channel_cal_rx_packet.tuning_code
                  num == g_channel_cal_scum_tx_num_received_tuning_codes_for_channel
              IN  /\ sctimer' =
                         IF code.mid > CHANNEL_CAL_RX_MID_CODE_THRESHOLD
                         THEN CHANNEL_CAL_RX_LONG_TIMEOUT
                         ELSE CHANNEL_CAL_RX_TIMEOUT
                  /\ IF code.coarse # 0 \/ code.mid # 0 \/ code.fine # 0
                     THEN /\ g_channel_cal_scum_tx_tuning_codes_for_channel' =
                                 RecordAt(
                                     g_channel_cal_scum_tx_tuning_codes_for_channel,
                                     num, code)
                          /\ g_channel_cal_scum_tx_num_received_tuning_codes_for_channel'
                                 \in RecordedCountAfter(num, code)
                     ELSE UNCHANGED
                              <<g_channel_cal_scum_tx_tuning_codes_for_channel,
                                g_channel_cal_scum_tx_num_received_tuning_codes_for_channel>>
                  /\ g_channel_cal_state' = CHANNEL_CAL_STATE_RX_IDLE
                  /\ UNCHANGED <<g_channel_cal_channel, end_frame_cb>>
                  /\ PeerLog("mote_main", g_channel_cal_rx_packet,
                             peer_step.caused_by)
         [] g_channel_cal_state = CHANNEL_CAL_STATE_TX ->
              /\ sctimer' = CHANNEL_CAL_TX_TIMEOUT
              /\ g_channel_cal_state' = CHANNEL_CAL_STATE_RX_ACK
              /\ UNCHANGED
                     <<g_channel_cal_channel, end_frame_cb,
                       g_channel_cal_scum_tx_tuning_codes_for_channel,
                       g_channel_cal_scum_tx_num_received_tuning_codes_for_channel>>
              /\ PeerLog("mote_main", peer_step.read, peer_step.caused_by)
         [] g_channel_cal_state = CHANNEL_CAL_STATE_RX_ACK ->
              /\ g_channel_cal_state' = CHANNEL_CAL_STATE_RX_ACK_IDLE
              /\ UNCHANGED
                     <<g_channel_cal_channel, sctimer, end_frame_cb,
                       g_channel_cal_scum_tx_tuning_codes_for_channel,
                       g_channel_cal_scum_tx_num_received_tuning_codes_for_channel>>
              /\ PeerLog("mote_main", peer_step.read, peer_step.caused_by)
         [] g_channel_cal_state = CHANNEL_CAL_STATE_RX_ACK_RECEIVED ->
              /\ IF /\ g_channel_cal_rx_packet.channel = g_channel_cal_channel
                    /\ g_channel_cal_rx_packet.command =
                           CHANNEL_CAL_COMMAND_CHANGE_CHANNEL
                 THEN /\ g_channel_cal_channel' = U8(g_channel_cal_channel + 1)
                      /\ g_channel_cal_state' =
                             IF g_channel_cal_channel' > CHANNEL_CAL_CHANNEL_END
                             THEN CHANNEL_CAL_STATE_SMART_STAKE_RX
                             ELSE CHANNEL_CAL_STATE_RX_ACK
                 ELSE /\ g_channel_cal_state' = CHANNEL_CAL_STATE_RX_ACK_IDLE
                      /\ UNCHANGED g_channel_cal_channel
              /\ UNCHANGED
                     <<sctimer, end_frame_cb,
                       g_channel_cal_scum_tx_tuning_codes_for_channel,
                       g_channel_cal_scum_tx_num_received_tuning_codes_for_channel>>
              /\ PeerLog("mote_main", g_channel_cal_rx_packet,
                         peer_step.caused_by)
         [] g_channel_cal_state = CHANNEL_CAL_STATE_SMART_STAKE_RX ->
              /\ end_frame_cb' = "smart_stake_end_frame_callback"
              /\ g_channel_cal_channel' = SMART_STAKE_DEMO_CHANNEL
              /\ g_channel_cal_state' = CHANNEL_CAL_STATE_SMART_STAKE_RX_IDLE
              /\ UNCHANGED
                     <<sctimer,
                       g_channel_cal_scum_tx_tuning_codes_for_channel,
                       g_channel_cal_scum_tx_num_received_tuning_codes_for_channel>>
              /\ PeerLog("mote_main", peer_step.read, peer_step.caused_by)
         [] g_channel_cal_state = CHANNEL_CAL_STATE_SMART_STAKE_RX_RECEIVED ->
              /\ g_channel_cal_state' = CHANNEL_CAL_STATE_SMART_STAKE_RX_IDLE
              /\ UNCHANGED
                     <<g_channel_cal_channel, sctimer, end_frame_cb,
                       g_channel_cal_scum_tx_tuning_codes_for_channel,
                       g_channel_cal_scum_tx_num_received_tuning_codes_for_channel>>
              /\ PeerLog("mote_main", g_smart_stake_rx_packet,
                         peer_step.caused_by)
         [] OTHER -> FALSE
    /\ UNCHANGED <<g_channel_cal_rx_packet, g_channel_cal_rx_packet_crc,
                   g_channel_cal_scum_tx_tuning_codes,
                   g_smart_stake_rx_packet, num_frames>>
    /\ UNCHANGED <<firmware_vars, radio_app_vars>>

\* The SCuM firmware is not part of the run of the peer.
FirmwareIdle ==
    /\ build = "channel_h"
    /\ tuning_code = TuningCode(TUNING_MIN_CODE, TUNING_MIN_CODE,
                                TUNING_MIN_CODE)
    /\ AlgebraIdle
    /\ SweepIdle
    /\ CalIdle

\* mote_main up to its while loop, as written: the callbacks are registered
\* and the state is CHANNEL_CAL_STATE_SMART_STAKE_RX.
InitPeer ==
    /\ FirmwareIdle
    /\ RadioAppIdle
    /\ g_channel_cal_state = CHANNEL_CAL_STATE_SMART_STAKE_RX
    /\ g_channel_cal_channel = CHANNEL_CAL_CHANNEL_START
    /\ g_channel_cal_rx_packet = ZeroPeerPacket
    /\ g_channel_cal_rx_packet_crc = FALSE
    /\ g_channel_cal_scum_tx_tuning_codes = [c \in PeerChannels |-> ZeroPeerCodes]
    /\ g_channel_cal_scum_tx_tuning_codes_for_channel = <<>>
    /\ g_channel_cal_scum_tx_num_received_tuning_codes_for_channel = 0
    /\ g_smart_stake_rx_packet = ZeroPeerPacket
    /\ end_frame_cb = "channel_cal_end_frame_callback"
    /\ sctimer = "off"
    /\ peer_step = NoPeerStep
    /\ protocol = <<[step |-> PeerStepOf(g_channel_cal_state),
                     channel |-> g_channel_cal_channel]>>
    /\ num_frames = 0

\* No call of sctimer_setCompare or sctimer_enable is reached from the state
\* mote_main starts in, so the timer callback is not among the steps.
NextPeer == PeerMainLoop \/ PeerEndFrame

SpecPeer == InitPeer /\ [][NextPeer]_vars

\* The calibration of the header comment: mote_main entered at the first
\* state of step 1, CHANNEL_CAL_STATE_RX, on CHANNEL_CAL_CHANNEL_START.
InitPeerCal ==
    /\ FirmwareIdle
    /\ RadioAppIdle
    /\ g_channel_cal_state = CHANNEL_CAL_STATE_RX
    /\ g_channel_cal_channel = CHANNEL_CAL_CHANNEL_START
    /\ g_channel_cal_rx_packet = ZeroPeerPacket
    /\ g_channel_cal_rx_packet_crc = FALSE
    /\ g_channel_cal_scum_tx_tuning_codes = [c \in PeerChannels |-> ZeroPeerCodes]
    /\ g_channel_cal_scum_tx_tuning_codes_for_channel = <<>>
    /\ g_channel_cal_scum_tx_num_received_tuning_codes_for_channel = 0
    /\ g_smart_stake_rx_packet = ZeroPeerPacket
    /\ end_frame_cb = "channel_cal_end_frame_callback"
    /\ sctimer = "off"
    /\ peer_step = NoPeerStep
    /\ protocol = <<[step |-> PeerStepOf(g_channel_cal_state),
                     channel |-> g_channel_cal_channel]>>
    /\ num_frames = 0

NextPeerCal == PeerMainLoop \/ PeerEndFrame \/ channel_cal_timer_callback

SpecPeerCal == InitPeerCal /\ [][NextPeerCal]_vars

\* The main loop runs whenever it has work to do, and an armed compare
\* expires; whether and when a frame arrives is up to the radio.
FairPeerCal ==
    /\ WF_vars(PeerMainLoop)
    /\ WF_vars(channel_cal_timer_callback)

SpecPeerCalFair == SpecPeerCal /\ FairPeerCal

\* Step 1 with the buffer of recorded codes one entry short of full: SCuM
\* has sent CHANNEL_CAL_MAX_NUM_RECORDED_TX_TUNING_CODES - 1 packets with a
\* non-zero code on the first channel, each before the timeout armed by the
\* one before it expired.
InitPeerRecord ==
    /\ FirmwareIdle
    /\ RadioAppIdle
    /\ g_channel_cal_state = CHANNEL_CAL_STATE_RX_IDLE
    /\ g_channel_cal_channel = CHANNEL_CAL_CHANNEL_START
    /\ g_channel_cal_rx_packet =
           [channel |-> CHANNEL_CAL_CHANNEL_START,
            command |-> CHANNEL_CAL_COMMAND_NONE,
            tuning_code |-> TuningCode(22, 15, 5)]
    /\ g_channel_cal_rx_packet_crc = TRUE
    /\ g_channel_cal_scum_tx_tuning_codes = [c \in PeerChannels |-> ZeroPeerCodes]
    /\ g_channel_cal_scum_tx_tuning_codes_for_channel =
           [i \in 1..(CHANNEL_CAL_MAX_NUM_RECORDED_TX_TUNING_CODES - 1) |->
               TuningCode(22, 15, 5)]
    /\ g_channel_cal_scum_tx_num_received_tuning_codes_for_channel =
           CHANNEL_CAL_MAX_NUM_RECORDED_TX_TUNING_CODES - 1
    /\ g_smart_stake_rx_packet = ZeroPeerPacket
    /\ end_frame_cb = "channel_cal_end_frame_callback"
    /\ sctimer = CHANNEL_CAL_RX_TIMEOUT
    /\ peer_step =
           [name |-> "mote_main", read |-> g_channel_cal_rx_packet,
            caused_by |-> g_channel_cal_rx_packet]
    /\ protocol = <<[step |-> PeerStepOf(g_channel_cal_state),
                     channel |-> g_channel_cal_channel]>>
    /\ num_frames = 0

SpecPeerRecord == InitPeerRecord /\ [][NextPeerCal]_vars

\* Step 1 with a packet just received: the end-frame callback has read a
\* valid frame in state RX_IDLE, with a mid code at or right above
\* CHANNEL_CAL_RX_MID_CODE_THRESHOLD, and the main loop has not handled it
\* yet. The frames that follow carry mid codes below the threshold.
PeerReceivedCodes ==
    {TuningCode(22, mid, 5) :
        mid \in CHANNEL_CAL_RX_MID_CODE_THRESHOLD
                    ..(CHANNEL_CAL_RX_MID_CODE_THRESHOLD + 1)}

InitPeerReceived ==
    /\ FirmwareIdle
    /\ RadioAppIdle
    /\ g_channel_cal_state = CHANNEL_CAL_STATE_RX_RECEIVED
    /\ g_channel_cal_channel = CHANNEL_CAL_CHANNEL_START
    /\ \E code \in PeerReceivedCodes :
           g_channel_cal_rx_packet =
               [channel |-> CHANNEL_CAL_CHANNEL_START,
                command |-> CHANNEL_CAL_COMMAND_NONE,
                tuning_code |-> code]
    /\ g_channel_cal_rx_packet_crc = TRUE
    /\ g_channel_cal_scum_tx_tuning_codes = [c \in PeerChannels |-> ZeroPeerCodes]
    /\ g_channel_cal_scum_tx_tuning_codes_for_channel = <<>>
    /\ g_channel_cal_scum_tx_num_received_tuning_codes_for_channel = 0
    /\ g_smart_stake_rx_packet = ZeroPeerPacket
    /\ end_frame_cb = "channel_cal_end_frame_callback"
    /\ sctimer = "off"
    /\ peer_step =
           [name |-> "channel_cal_end_frame_callback",
            read |-> ZeroPeerPacket, caused_by |-> g_channel_cal_rx_packet]
    /\ protocol = <<[step |-> PeerStepOf(g_channel_cal_state),
                     channel |-> g_channel_cal_channel]>>
    /\ num_frames = 0

SpecPeerReceived == InitPeerReceived /\ [][NextPeerCal]_vars

\* The averaging on its own: the timer expires in state RX_IDLE on a buffer
\* of recorded codes drawn from the lists of at most MaxRecordedCodes codes.
RecordedCodes ==
    {TuningCode(22, 15, 5), TuningCode(22, 15, 9), TuningCode(22, 16, 1),
     TuningCode(22, 16, 3), TuningCode(22, 16, 11)}

RecordedLists ==
    UNION {[1..n -> RecordedCodes] : n \in 0..MaxRecordedCodes}

InitAverage ==
    /\ FirmwareIdle
    /\ RadioAppIdle
    /\ g_channel_cal_state = CHANNEL_CAL_STATE_RX_IDLE
    /\ g_channel_cal_channel \in
           CHANNEL_CAL_CHANNEL_START..CHANNEL_CAL_CHANNEL_END
    /\ g_channel_cal_rx_packet = ZeroPeerPacket
    /\ g_channel_cal_rx_packet_crc = FALSE
    /\ g_channel_cal_scum_tx_tuning_codes = [c \in PeerChannels |-> ZeroPeerCodes]
    /\ g_channel_cal_scum_tx_tuning_codes_for_channel \in RecordedLists
    /\ g_channel_cal_scum_tx_num_received_tuning_codes_for_channel =
           Len(g_channel_cal_scum_tx_tuning_codes_for_channel)
    /\ g_smart_stake_rx_packet = ZeroPeerPacket
    /\ end_frame_cb = "channel_cal_end_frame_callback"
    /\ sctimer = CHANNEL_CAL_RX_TIMEOUT
    /\ peer_step = NoPeerStep
    /\ protocol = <<[step |-> PeerStepOf(g_channel_cal_state),
                     channel |-> g_channel_cal_channel]>>
    /\ num_frames = 0

NextAverage == channel_cal_timer_callback

SpecAverage == InitAverage /\ [][NextAverage]_vars

----------------------------------------------------------------------------
(* The radio app, projects/common/01bsp_macscum/01bsp_macscum.c: the main   *)
(* loop of mote_main and the callbacks the radio, the timer and the UART    *)
(* call from interrupt context. A callback runs to its end between two      *)
(* steps of the main loop; the main loop is cut where it reads or writes    *)
(* app_vars.flags, so that flags &= ~X is a load followed by a store. The   *)
(* counters of app_dbg, which nothing reads, and the bytes of the packets   *)
(* and of stringToSend are left out.                                        *)

\* flags & X
HasFlag(flags, X) == (flags \div X) % 2 = 1

\* flags | X
SetFlag(flags, X) == IF HasFlag(flags, X) THEN flags ELSE flags + X

\* flags & ~X
ClearFlag(flags, X) == IF HasFlag(flags, X) THEN flags - X ELSE flags

\* A callback sets its flag: app_vars.flags |= X.
RaiseFlag(X, name) ==
    /\ app_vars' = [app_vars EXCEPT !.flags = SetFlag(@, X)]
    /\ app_pending' = app_pending \cup {X}
    /\ app_step' = name
    /\ UNCHANGED <<main_pc, main_flags>>

\* cb_startFrame, called when the radio starts to send the loaded packet.
TxStartFrame ==
    /\ app_radio = "tx"
    /\ app_radio' = "tx_frame"
    /\ RaiseFlag(APP_FLAG_START_FRAME, "cb_startFrame")
    /\ UNCHANGED <<compare_armed, firmware_vars, peer_vars>>

\* cb_endFrame, called when the radio has sent the packet.
TxEndFrame ==
    /\ app_radio = "tx_frame"
    /\ app_radio' = "idle"
    /\ RaiseFlag(APP_FLAG_END_FRAME, "cb_endFrame")
    /\ UNCHANGED <<compare_armed, firmware_vars, peer_vars>>

\* cb_startFrame, called when the listening radio detects a frame.
RxStartFrame ==
    /\ app_radio = "rx"
    /\ app_radio' = "rx_frame"
    /\ RaiseFlag(APP_FLAG_START_FRAME, "cb_startFrame")
    /\ UNCHANGED <<compare_armed, firmware_vars, peer_vars>>

\* cb_endFrame, called when the radio has received the frame; whether the
\* radio goes on listening afterwards is up to the radio driver.
RxEndFrame ==
    /\ app_radio = "rx_frame"
    /\ app_radio' \in {"idle", "rx"}
    /\ RaiseFlag(APP_FLAG_END_FRAME, "cb_endFrame")
    /\ UNCHANGED <<compare_armed, firmware_vars, peer_vars>>

\* cb_timer, called when the compare set by sctimer_setCompare is reached.
cb_timer ==
    /\ compare_armed
    /\ compare_armed' = FALSE
    /\ RaiseFlag(APP_FLAG_TIMER, "cb_timer")
    /\ UNCHANGED <<app_radio, firmware_vars, peer_vars>>

\* cb_uart_tx_done for the last byte of stringToSend.
cb_uart_tx_done ==
    /\ app_vars.uartDone = 0
    /\ app_vars' = [app_vars EXCEPT !.uartDone = 1]
    /\ app_step' = "cb_uart_tx_done"
    /\ UNCHANGED <<main_pc, main_flags, app_radio, compare_armed, app_pending,
                   firmware_vars, peer_vars>>

\* "send string over UART": started only when the last one is done.
UartSend(app) == [app EXCEPT !.uartDone = 0]

\* What radio_getReceivedFrame returns to the handler of the end of a frame.
ReceivedFrames == {"crc_failed", "join_request", "other"}

\* The first half of flags &= ~X: the load.
LoadFlags(next_pc) ==
    /\ main_flags' = app_vars.flags
    /\ main_pc' = next_pc
    /\ app_step' = "load"
    /\ UNCHANGED <<app_vars, app_radio, compare_armed, app_pending>>

\* The second half of flags &= ~X: the store of the loaded flags without X.
StoreFlags(X, next_pc) ==
    /\ app_vars' = [app_vars EXCEPT !.flags = ClearFlag(main_flags, X)]
    /\ app_pending' = app_pending \ {X}
    /\ main_pc' = next_pc
    /\ app_step' = "store"
    /\ UNCHANGED <<main_flags, app_radio, compare_armed>>

\* No flag to handle at this point of the loop.
Skip(next_pc) ==
    /\ main_pc' = next_pc
    /\ app_step' = "skip"
    /\ UNCHANGED <<app_vars, main_flags, app_radio, compare_armed, app_pending>>

\* The handler of APP_FLAG_END_FRAME, up to the clearing of the flag.
HandleEndFrame ==
    /\ main_pc' = "end_load"
    /\ app_step' = "end_frame"
    /\ UNCHANGED <<main_flags, compare_armed, app_pending>>
    /\ IF app_vars.state = APP_STATE_RX
       THEN \E frame \in ReceivedFrames :
                CASE frame = "join_request" ->
                         /\ app_radio' = "tx"
                         /\ app_vars' =
                                [UartSend(app_vars) EXCEPT
                                    !.state = APP_STATE_TX]
                  [] frame = "other" ->
                         /\ app_vars' = UartSend(app_vars)
                         /\ UNCHANGED app_radio
                  [] frame = "crc_failed" ->
                         /\ app_radio' = "rx"
                         /\ UNCHANGED app_vars
       ELSE /\ app_radio' = "rx"
            /\ app_vars' =
                   [UartSend(app_vars) EXCEPT !.state = APP_STATE_RX]

\* One step of the while (1) loop of mote_main.
MoteMainStep ==
    /\ CASE main_pc = "sleep" ->
              \* while (app_vars.flags==0x00) board_sleep();
              /\ app_vars.flags # 0
              /\ Skip("while")
         [] main_pc = "while" ->
              \* while (app_vars.flags)
              IF app_vars.flags # 0 THEN Skip("start") ELSE Skip("sleep")
         [] main_pc = "start" ->
              \* the LEDs only
              IF HasFlag(app_vars.flags, APP_FLAG_START_FRAME)
              THEN /\ main_pc' = "start_load"
                   /\ app_step' = "start_frame"
                   /\ UNCHANGED <<app_vars, main_flags, app_radio,
                                  compare_armed, app_pending>>
              ELSE Skip("end")
         [] main_pc = "start_load" -> LoadFlags("start_store")
         [] main_pc = "start_store" ->
              StoreFlags(APP_FLAG_START_FRAME, "end")
         [] main_pc = "end" ->
              IF ~HasFlag(app_vars.flags, APP_FLAG_END_FRAME)
              THEN Skip("timer")
              ELSE HandleEndFrame
         [] main_pc = "end_load" -> LoadFlags("end_store")
         [] main_pc = "end_store" -> StoreFlags(APP_FLAG_END_FRAME, "timer")
         [] main_pc = "timer" ->
              IF ~HasFlag(app_vars.flags, APP_FLAG_TIMER)
              THEN Skip("while")
              ELSE /\ main_pc' = "timer_load"
                   /\ UNCHANGED <<main_flags, app_pending>>
                   /\ IF app_vars.state = APP_STATE_RX
                      THEN /\ app_radio' = "tx"
                           /\ compare_armed' = TRUE
                           /\ app_vars' =
                                  [app_vars EXCEPT !.state = APP_STATE_TX]
                           /\ app_step' = "transmit"
                      ELSE /\ app_step' = "timer"
                           /\ UNCHANGED <<app_vars, app_radio, compare_armed>>
         [] main_pc = "timer_load" -> LoadFlags("timer_store")
         [] main_pc = "timer_store" -> StoreFlags(APP_FLAG_TIMER, "while")
    /\ UNCHANGED <<firmware_vars, peer_vars>>

\* mote_main up to its while (1) loop: the timer is set, the radio is set
\* up for reception, and the flag of the timer is set to start by a
\* transmission.
InitRadioApp ==
    /\ FirmwareIdle
    /\ PeerIdle
    /\ app_vars = [flags |-> APP_FLAG_TIMER, state |-> APP_STATE_RX,
                   uartDone |-> 1]
    /\ main_pc = "sleep"
    /\ main_flags = 0
    /\ app_radio \in {"idle", "rx"}
    /\ compare_armed = TRUE
    /\ app_step = "none"
    /\ app_pending = {}

NextRadioApp ==
    \/ MoteMainStep
    \/ TxStartFrame
    \/ TxEndFrame
    \/ RxStartFrame
    \/ RxEndFrame
    \/ cb_timer
    \/ cb_uart_tx_done

SpecRadioApp == InitRadioApp /\ [][NextRadioApp]_vars

\* The main loop keeps running, the radio finishes what it has started, the
\* set compare is reached and the UART finishes its string; whether frames
\* arrive is up to the environment.
FairRadioApp ==
    /\ WF_vars(MoteMainStep)
    /\ WF_vars(TxStartFrame)
    /\ WF_vars(TxEndFrame)
    /\ WF_vars(RxEndFrame)
    /\ WF_vars(cb_timer)
    /\ WF_vars(cb_uart_tx_done)

SpecRadioAppFair == SpecRadioApp /\ FairRadioApp

----------------------------------------------------------------------------
(* Properties of the tuning-code algebra. *)

\* C1: starting from a code with every field in [0,31], every algebra
\* operation called with n in 1..31 (and each of the four estimates) leaves
\* every field of the code in [0,31]. The code violates it: the operations
\* carry or borrow at most once and never check coarse.
C1_FieldsStayInRange ==
    Len(applied) = 1 => ValidCode(tuning_code)

\* C2: increment_fine(n) adds n to fine when fine + n <= 31, and otherwise
\* advances the code by one mid code (increment_mid with 1) and sets fine to
\* FINE_PER_MID_TRANSITION + (fine + n) - 32.
C2_IncrementFineContract ==
    applied = <<"increment_fine">> =>
        tuning_code =
            IF input.fine + num_codes <= TUNING_MAX_CODE
            THEN TuningCode(input.coarse, input.mid, input.fine + num_codes)
            ELSE [tuning_increment_mid_codes(input, 1) EXCEPT
                    !.fine = TUNING_NUM_FINE_CODES_PER_MID_CODE_TRANSITION
                             + (input.fine + num_codes) - 32]

\* C2 witness: an increment that carried into mid.
C2_Witness ==
    /\ applied = <<"increment_fine">>
    /\ input.fine + num_codes > TUNING_MAX_CODE
    /\ tuning_code.mid = input.mid + 1
    /\ tuning_code.fine = TUNING_NUM_FINE_CODES_PER_MID_CODE_TRANSITION

\* The decrement of the round trip wrapped coarse below 0.
CoarseUnderflow ==
    LET incremented == tuning_increment_fine_codes(input, num_codes)
    IN  tuning_code.coarse > incremented.coarse

\* C3 as stated: increment_fine(n) followed by decrement_fine(n) returns the
\* original code whenever no coarse underflow occurs.
C3_RoundTripIdentity ==
    applied = <<"increment_fine", "decrement_fine">> /\ ~CoarseUnderflow =>
        tuning_code = input

\* C3 as amended: increment_fine(n) followed by decrement_fine(n) returns the
\* original code exactly when the increment does not carry (fine + n <= 31),
\* or it carries from a fine code the decrement borrows back to (fine <= 22)
\* without carrying into coarse (mid <= 30); in every other case the result
\* is a different code.
C3_RoundTripIdentityIffNoOverlap ==
    applied = <<"increment_fine", "decrement_fine">> =>
        (tuning_code = input <=>
            \/ input.fine + num_codes <= TUNING_MAX_CODE
            \/ /\ input.fine <= TUNING_MAX_CODE
                      - TUNING_NUM_FINE_CODES_PER_MID_CODE_TRANSITION
               /\ input.mid <= TUNING_MAX_CODE - 1)

\* C3 witness: a round trip through a carry that comes back to the original.
C3_Witness ==
    /\ applied = <<"increment_fine", "decrement_fine">>
    /\ input.fine + num_codes > TUNING_MAX_CODE
    /\ tuning_code = input

\* C4 as stated: estimate_previous_channel after estimate_next_channel, and
\* estimate_tx_from_rx after estimate_rx_from_tx, return the original code,
\* also when the increment carries into coarse.
C4_EstimatesInverse ==
    \/ applied = <<"estimate_next_channel", "estimate_previous_channel">>
    \/ applied = <<"estimate_rx_from_tx", "estimate_tx_from_rx">>
    => tuning_code = input

\* C4 as amended: each pair returns the original code exactly when the
\* increment does not carry into coarse (mid + the number of mid codes added
\* <= 31); when it carries, the decrement does not borrow back and the result
\* is a different code.
C4_EstimatesInverseIffNoCarry ==
    /\ applied = <<"estimate_next_channel", "estimate_previous_channel">> =>
        (tuning_code = input <=>
            input.mid + TUNING_NUM_MID_CODES_BETWEEN_CHANNELS
                <= TUNING_MAX_CODE)
    /\ applied = <<"estimate_rx_from_tx", "estimate_tx_from_rx">> =>
        (tuning_code = input <=>
            input.mid + TUNING_NUM_MID_CODES_BETWEEN_RX_AND_TX
                <= TUNING_MAX_CODE)

\* C4 witness: next channel then previous channel from the last mid code
\* that does not carry, back at the original code.
C4_Witness ==
    /\ applied = <<"estimate_next_channel", "estimate_previous_channel">>
    /\ input.mid + TUNING_NUM_MID_CODES_BETWEEN_CHANNELS = TUNING_MAX_CODE
    /\ tuning_code = input

\* C5: increment_mid(a) then increment_mid(b) yields the code of one
\* increment_mid(a + b) whenever the intermediate code is in range. The code
\* violates it: one call carries into coarse at most once.
C5_IncrementMidAdditive ==
    /\ applied = <<"increment_mid", "increment_mid">>
    /\ ValidCode(tuning_increment_mid_codes(input, num_codes))
    => tuning_code =
           tuning_increment_mid_codes(input, U8(num_codes + num_codes_2))

\* The threshold band of rollover_mid(t): t <= mid and mid + t <= 31.
InRolloverBand(tc, t) == t <= tc.mid /\ tc.mid + t <= TUNING_MAX_CODE

\* What C6 states of one call of rollover_mid(t) on tc giving out.
RolloverContract(tc, t, out) ==
    /\ tc.mid < t =>
          out = [tc EXCEPT
                   !.mid = tc.mid
                       + TUNING_NUM_MID_CODES_PER_COARSE_CODE_TRANSITION,
                   !.coarse = U8(tc.coarse - 1)]
    /\ tc.mid + t > TUNING_MAX_CODE =>
          out = [tc EXCEPT
                   !.mid = tc.mid
                       - TUNING_NUM_MID_CODES_PER_COARSE_CODE_TRANSITION,
                   !.coarse = U8(tc.coarse + 1)]
    /\ InRolloverBand(tc, t) => out = tc

\* The code the first of two rollover_mid calls produced.
RolledOver == tuning_rollover_mid_code(input, num_codes)

\* C6 as stated, for every threshold and both builds: below the band mid
\* gains MID_PER_COARSE_TRANSITION and coarse is decremented, above it mid
\* loses it and coarse is incremented, inside it the code is unchanged, and
\* a second call on the result changes nothing.
C6_RolloverContract ==
    /\ applied = <<"rollover_mid">> =>
          RolloverContract(input, num_codes, tuning_code)
    /\ applied = <<"rollover_mid", "rollover_mid">> =>
          tuning_code = RolledOver

\* The largest threshold for which the two branches of rollover_mid cannot
\* both fire in one call: mid < t and mid + MID_PER_COARSE_TRANSITION + t > 31
\* need 2t - 1 + MID_PER_COARSE_TRANSITION > 31. It is 9 in both builds.
MaxSeparateThreshold ==
    (TUNING_MAX_CODE + 1 - TUNING_NUM_MID_CODES_PER_COARSE_CODE_TRANSITION)
        \div 2

\* C6 as amended: for thresholds 1..9, in the channel.h build the three
\* cases are as stated; in the part_004 build, which has no lower branch, a
\* code with mid < t is unchanged and the other two cases are as stated; in
\* both builds a second call on the result changes nothing.
C6_RolloverContractSmallThreshold ==
    num_codes <= MaxSeparateThreshold =>
        /\ applied = <<"rollover_mid">> /\ build = "channel_h" =>
              RolloverContract(input, num_codes, tuning_code)
        /\ applied = <<"rollover_mid">> /\ build = "part_004" =>
              IF input.mid < num_codes
              THEN tuning_code = input
              ELSE RolloverContract(input, num_codes, tuning_code)
        /\ applied = <<"rollover_mid", "rollover_mid">> =>
              tuning_code = RolledOver

\* C6 witness: a rollover below the band, then a second call that leaves the
\* rolled-over code alone.
C6_Witness ==
    /\ applied = <<"rollover_mid", "rollover_mid">>
    /\ num_codes <= MaxSeparateThreshold
    /\ input.coarse > TUNING_MIN_CODE
    /\ input.mid < num_codes
    /\ RolledOver.mid = input.mid
           + TUNING_NUM_MID_CODES_PER_COARSE_CODE_TRANSITION
    /\ tuning_code = RolledOver

----------------------------------------------------------------------------
(* Properties of the sweep iterator. *)

SingleCoarse == sweep_config.coarse.start = sweep_config.coarse.end

SweepBox ==
    {TuningCode(c, m, f) :
        c \in sweep_config.coarse.start..sweep_config.coarse.end,
        m \in sweep_config.mid.start..sweep_config.mid.end,
        f \in sweep_config.fine.start..sweep_config.fine.end}

\* tuning_end_of_sweep is true of the current code and of no earlier one.
EndOfSweepFirstReached ==
    /\ visited # <<>>
    /\ tuning_end_of_sweep(visited[Len(visited)], sweep_config)
    /\ \A j \in 1..(Len(visited) - 1) :
           ~tuning_end_of_sweep(visited[j], sweep_config)

\* C8: for a valid sweep configuration with coarse.start < coarse.end, the
\* codes taken from tuning_init_for_sweep by repeated calls of
\* tuning_increment_fine_code_for_sweep, up to the first one of which
\* tuning_end_of_sweep is true, are the codes of the box
\* [coarse.start, coarse.end] x [mid.start, mid.end] x [fine.start, fine.end],
\* each exactly once.
C8_SweepVisitsBoxOnce ==
    (~SingleCoarse /\ EndOfSweepFirstReached) =>
        /\ {visited[j] : j \in 1..Len(visited)} = SweepBox
        /\ Len(visited) = Cardinality(SweepBox)

\* A sweep over two coarse codes, several mid codes and two fine codes has
\* reached its end.
C8_Witness ==
    /\ ~SingleCoarse
    /\ EndOfSweepFirstReached
    /\ sweep_config.mid.end > sweep_config.mid.start + 1
    /\ sweep_config.fine.end > sweep_config.fine.start
    /\ Len(visited) > 1

NumFineCodesOfSweep == sweep_config.fine.end - sweep_config.fine.start + 1

\* The i-th mid code of the order m, m+1, m-1, m+2, m-2, ...
PingPongMid(m, i) == IF i % 2 = 1 THEN m + (i + 1) \div 2 ELSE m - i \div 2

\* The mid range is [m - k, m + k] around its midpoint m.
SymmetricMidRange ==
    (sweep_config.mid.end - sweep_config.mid.start) % 2 = 0

----------------------------------------------------------------------------
(* Properties of the calibration engine. *)

\* The calls that set the engine up again.
InitCalls == {"init_initial_rx_sweep", "init_remaining_sweeps"}

\* C10: calibrated is a latch: for every channel and mode (RX or TX), a
\* calibrated flag that is true is still true after any call of
\* channel_cal_rx_success, channel_cal_rx_failure, channel_cal_tx_success
\* or channel_cal_tx_failure on any channel and after any timer callback
\* (and after the end of the initial RX sweep): only the calls that
\* initialise the engine again clear it.
C10_CalibratedLatch ==
    [][last_call'.name \notin InitCalls =>
           \A c \in Channels :
               /\ g_channel_cal_channel_infos[c].rx.calibrated =>
                      g_channel_cal_channel_infos'[c].rx.calibrated
               /\ g_channel_cal_channel_infos[c].tx.calibrated =>
                      g_channel_cal_channel_infos'[c].tx.calibrated]_vars

\* The first RX success on a channel has just been handled, and the channel
\* is still TX calibrated from an earlier TX success (rx_success sets no TX
\* flag, and the RX count was zero before).
C10_Witness ==
    /\ last_call.name = "rx_success"
    /\ g_channel_cal_channel_infos[last_call.channel].tx.calibrated
    /\ g_channel_cal_num_channels_rx_calibrated = 1
    /\ g_channel_cal_num_channels_tx_calibrated >= 1

\* The channel informations after a failure on (channel, mode) is handled
\* while that mode of the channel is not calibrated: the first failure is
\* only counted, the second takes one sweep step and clears the count.
InfosAfterFailure(infos, channel, mode) ==
    LET info == infos[channel][mode]
    IN  IF info.num_failures + 1 = CHANNEL_CAL_MAX_NUM_FAILURES
        THEN [infos EXCEPT
                ![channel][mode].tuning_code =
                    tuning_increment_fine_code_for_sweep(info.tuning_code,
                                                         info.sweep_config),
                ![channel][mode].num_failures = 0]
        ELSE [infos EXCEPT ![channel][mode].num_failures = 1]

\* C11: for a channel whose RX (respectively TX) is not calibrated, the
\* first channel_cal_rx_failure (respectively channel_cal_tx_failure) call
\* changes only num_failures of that channel and mode, and the second
\* consecutive one (MAX_NUM_FAILURES = 2) advances the tuning code of that
\* channel and mode by exactly one tuning_increment_fine_code_for_sweep step
\* within its own sweep configuration and leaves num_failures at 0; the
\* information of every other channel and of the other mode is untouched.
C11_FailuresAdvanceCode ==
    [][LET c == last_call'.channel
           infos == g_channel_cal_channel_infos
       IN  /\ \A ch \in Channels : \A mode \in {"rx", "tx"} :
                  infos[ch][mode].num_failures
                      \in 0..(CHANNEL_CAL_MAX_NUM_FAILURES - 1)
           /\ (last_call'.name = "rx_failure" /\ ~infos[c].rx.calibrated) =>
                  g_channel_cal_channel_infos' =
                      InfosAfterFailure(infos, c, "rx")
           /\ (last_call'.name = "tx_failure" /\ ~infos[c].tx.calibrated) =>
                  g_channel_cal_channel_infos' =
                      InfosAfterFailure(infos, c, "tx")]_vars

\* The second of two consecutive TX failures on an initialised channel has
\* moved its TX code one fine code on from the start of its sweep.
C11_Witness ==
    LET tx == g_channel_cal_channel_infos[last_call.channel].tx
    IN  /\ last_call.name = "tx_failure"
        /\ ~tx.calibrated
        /\ tx.num_failures = 0
        /\ tuning_validate_sweep_config(tx.sweep_config)
        /\ tx.sweep_config.coarse.start >= 22
        /\ tx.tuning_code =
               [tuning_init_for_sweep(tx.sweep_config) EXCEPT !.fine = 1]

\* The call just made handled an RX success on last_call'.channel.
RxSuccessStep ==
    \/ last_call'.name = "rx_success"
    \/ last_call'.name = "end_initial_rx_sweep"

\* The TX sweep around an RX code: one coarse code, the mid codes within one
\* of the rolled-over TX estimate, the fine codes 0..24.
TxSweepAround(rx_code) ==
    LET estimate ==
            tuning_rollover_mid_code(tuning_estimate_tx_from_rx(rx_code), 1)
    IN  SweepConfig(SweepRange(estimate.coarse, estimate.coarse),
                    SweepRange(U8(estimate.mid - 1), U8(estimate.mid + 1)),
                    SweepRange(TUNING_MIN_CODE, TUNING_MAX_CODE - 7))

\* C12 as stated: channel_cal_rx_success(c) sets rx.calibrated of c and
\* clears rx.num_failures, and when the TX code of c is not calibrated the
\* TX tuning code of c afterwards equals tuning_estimate_tx_from_rx applied
\* to the RX tuning code of c (checked where the TX sweep set up is valid).
C12_TxCodeIsEstimate ==
    [][LET c == last_call'.channel
           old == g_channel_cal_channel_infos[c]
           new == g_channel_cal_channel_infos'[c]
       IN  (/\ RxSuccessStep
            /\ ~old.rx.calibrated
            /\ ~old.tx.calibrated
            /\ tuning_validate_sweep_config(
                   TxSweepAround(old.rx.tuning_code))) =>
               /\ new.rx.calibrated
               /\ new.rx.num_failures = 0
               /\ new.tx.tuning_code =
                      tuning_estimate_tx_from_rx(new.rx.tuning_code)]_vars

\* C12, amended: channel_cal_rx_success(c) sets rx.calibrated of c, clears
\* rx.num_failures and keeps the RX code and sweep.  Only on the first RX
\* success of c, and only if TX of c is not calibrated, it sets up the TX
\* sweep of c around tuning_estimate_tx_from_rx of the RX code: the TX
\* information becomes uncalibrated with no failures, its sweep is
\* TxSweepAround the RX code and its tuning code is the start of that sweep
\* (fine 0, not the RX fine code); if that sweep is not valid the TX
\* information is left zeroed apart from the sweep.  In every other case
\* the TX information of c is unchanged.
C12_TxSweepSeededFromEstimate ==
    [][LET c == last_call'.channel
           old == g_channel_cal_channel_infos[c]
           new == g_channel_cal_channel_infos'[c]
           config == TxSweepAround(old.rx.tuning_code)
       IN  RxSuccessStep =>
               /\ new.rx = [old.rx EXCEPT !.calibrated = TRUE,
                                          !.num_failures = 0]
               /\ new.tx =
                      IF old.rx.calibrated \/ old.tx.calibrated
                      THEN old.tx
                      ELSE IF tuning_validate_sweep_config(config)
                      THEN [calibrated |-> FALSE,
                            tuning_code |-> tuning_init_for_sweep(config),
                            sweep_config |-> config,
                            num_failures |-> 0]
                      ELSE [ZeroChannelModeInfo EXCEPT
                              !.sweep_config = config]]_vars

\* The initial channel had its first RX success at a code with fine code 1,
\* and its TX sweep was set up, starting at fine code 0.
C12_Witness ==
    LET info == g_channel_cal_channel_infos[last_call.channel]
    IN  /\ last_call.name = "rx_success"
        /\ g_channel_cal_num_channels_rx_calibrated = 1
        /\ info.rx.tuning_code.fine = 1
        /\ info.rx.tuning_code.coarse >= 22
        /\ ~info.tx.calibrated
        /\ info.tx.sweep_config = TxSweepAround(info.rx.tuning_code)
        /\ info.tx.tuning_code.fine = 0
        /\ info.tx.tuning_code.coarse = info.rx.tuning_code.coarse

channel_cal_all_rx_calibrated ==
    g_channel_cal_num_channels_rx_calibrated >= NUM_CHANNELS

channel_cal_all_tx_calibrated ==
    g_channel_cal_num_channels_tx_calibrated >= NUM_CHANNELS

\* The calibrated counts equal the numbers of channels whose flag is set.
CountsMatchFlags ==
    /\ g_channel_cal_num_channels_rx_calibrated =
           Cardinality({c \in Channels :
                            g_channel_cal_channel_infos[c].rx.calibrated})
    /\ g_channel_cal_num_channels_tx_calibrated =
           Cardinality({c \in Channels :
                            g_channel_cal_channel_infos[c].tx.calibrated})
    /\ channel_cal_all_rx_calibrated <=>
           \A c \in Channels : g_channel_cal_channel_infos[c].rx.calibrated
    /\ channel_cal_all_tx_calibrated <=>
           \A c \in Channels : g_channel_cal_channel_infos[c].tx.calibrated

SuccessAndFailureCalls ==
    {"rx_success", "rx_failure", "tx_success", "tx_failure"}

\* C13: the RX and TX calibrated counts always equal the numbers of
\* channels whose rx.calibrated and tx.calibrated flags are set, so that
\* channel_cal_all_rx_calibrated() and channel_cal_all_tx_calibrated() are
\* true exactly when all 16 flags are set: an RX or TX success or failure
\* handled in a state where the counts match leaves them matching (a
\* repeated success on one channel is not counted twice).
C13_CountsMatchFlags ==
    [][(CountsMatchFlags /\ last_call'.name \in SuccessAndFailureCalls) =>
           CountsMatchFlags']_vars

InitialRxCalibrated ==
    g_channel_cal_channel_infos[CHANNEL_CAL_INITIAL_CHANNEL].rx.calibrated

\* C14: channel_cal_end_initial_rx_sweep leaves the initial channel RX
\* calibrated and the engine's timer cancelled, and a timer callback that
\* fires while the initial channel is RX calibrated returns without action:
\* it changes no tuning code (nor anything else the engine holds), does not
\* retune the radio and schedules no timer.
C14_CallbackAfterEndDoesNothing ==
    [][/\ last_call'.name = "end_initial_rx_sweep" =>
              InitialRxCalibrated' /\ ~timer_scheduled'
       /\ (last_call'.name = "initial_rx_timer_cb" /\ InitialRxCalibrated) =>
              /\ cal_globals' = cal_globals
              /\ radio_tuning_code' = radio_tuning_code
              /\ timer_scheduled' => timer_scheduled
              /\ stale_timer_scheduled' => stale_timer_scheduled]_vars

\* A timer callback has fired after the initial RX sweep was ended and
\* found the initial channel RX calibrated; no timer is left scheduled.
C14_Witness ==
    /\ last_call.name = "initial_rx_timer_cb"
    /\ InitialRxCalibrated
    /\ g_channel_cal_initial_rx_sweep_finished
    /\ ~timer_scheduled
    /\ ~stale_timer_scheduled

----------------------------------------------------------------------------
(* Properties of the initial RX sweep. *)

InitialRx == g_channel_cal_channel_infos[CHANNEL_CAL_INITIAL_CHANNEL].rx

\* The codes of a sweep configuration.
SweepCodes(cfg) ==
    {TuningCode(c, m, f) :
        c \in cfg.coarse.start..cfg.coarse.end,
        m \in cfg.mid.start..cfg.mid.end,
        f \in cfg.fine.start..cfg.fine.end}

\* The initial RX sweep is running and no frame has arrived.
SilentSweep ==
    last_call.name \in {"start_initial_rx_sweep", "initial_rx_timer_cb"}

NumTimerExpirations == Len(visited) - 1

\* C15: during the initial RX sweep with a peer that transmits nothing,
\* every timer expiry advances the RX code of the initial channel by exactly
\* one tuning_increment_fine_code_for_sweep step, tunes the radio to it and
\* schedules the timer again; once the timer has expired as many times as
\* the initial sweep configuration has codes, the RX code has taken every
\* code of the configuration.
C15_SilentSweepTakesEveryCode ==
    SilentSweep =>
        /\ timer_scheduled
        /\ visited[Len(visited)] = InitialRx.tuning_code
        /\ radio_tuning_code = InitialRx.tuning_code
        /\ \A j \in 1..NumTimerExpirations :
               visited[j + 1] =
                   tuning_increment_fine_code_for_sweep(
                       visited[j], InitialRx.sweep_config)
        /\ NumTimerExpirations >= Cardinality(SweepCodes(InitialRx.sweep_config))
               => SweepCodes(InitialRx.sweep_config)
                      \subseteq {visited[j] : j \in 1..Len(visited)}

\* The timer has expired 50 times in a sweep over two coarse codes (50
\* codes), and the code is back at the first code of the sweep.
C15_Witness ==
    /\ SilentSweep
    /\ InitialRx.sweep_config.coarse.start < InitialRx.sweep_config.coarse.end
    /\ NumTimerExpirations = Cardinality(SweepCodes(InitialRx.sweep_config))
    /\ InitialRx.tuning_code = visited[1]

channel_cal_initial_rx_calibrated == g_channel_cal_initial_rx_sweep_finished

\* C16: a single valid frame received during the initial RX sweep ends the
\* sweep: channel_cal_end_initial_rx_sweep sets rx.calibrated of the initial
\* channel, makes channel_cal_initial_rx_calibrated() true, cancels the
\* timer and leaves the RX tuning code at the value it had when the frame
\* arrived.  Scenario S1: with coarse [22,22] and mid [15,15] the sweep
\* starts at (22,15,0), and a frame after the 3rd timer expiry leaves
\* (22,15,3).
C16_FrameEndsInitialSweep ==
    last_call.name = "end_initial_rx_sweep" =>
        /\ InitialRx.calibrated
        /\ channel_cal_initial_rx_calibrated
        /\ ~timer_scheduled
        /\ InitialRx.tuning_code = visited[Len(visited)]
        /\ InitialRx.tuning_code = radio_tuning_code
        /\ (board_info = BoardInfo(22, 22, 15) /\ NumTimerExpirations = 3) =>
               /\ visited[1] = TuningCode(22, 15, 0)
               /\ InitialRx.tuning_code = TuningCode(22, 15, 3)

\* Scenario S1 has run: the frame arrived after the 3rd timer expiry.
C16_Witness ==
    /\ last_call.name = "end_initial_rx_sweep"
    /\ board_info = BoardInfo(22, 22, 15)
    /\ NumTimerExpirations = 3
    /\ InitialRx.tuning_code = TuningCode(22, 15, 3)
    /\ InitialRx.calibrated

\* Scenario S2: the remaining sweeps have just been initialised after the
\* initial channel was found at RX code (23,15,10).
RemainingInitialisedAt231510 ==
    /\ last_call.name = "init_remaining_sweeps"
    /\ visited # <<>>
    /\ visited[Len(visited)] = TuningCode(23, 15, 10)

\* C17 as stated: with the initial channel 17 calibrated at RX code
\* (23,15,10), channel_cal_init_remaining_sweeps leaves the stored RX code
\* of channel 18 at (23,20,10), that of channel 16 at (23,10,10) and the
\* stored TX code of channel 17 at (23,14,10), keeping the fine code.
C17_NeighboursKeepFineCode ==
    RemainingInitialisedAt231510 =>
        /\ g_channel_cal_channel_infos[18].rx.tuning_code =
               TuningCode(23, 20, 10)
        /\ g_channel_cal_channel_infos[16].rx.tuning_code =
               TuningCode(23, 10, 10)
        /\ g_channel_cal_channel_infos[17].tx.tuning_code =
               TuningCode(23, 14, 10)

\* The mid code a sweep with mid range [e - 1, e + 1] starts at.
SweepStartMid(e) == IF build = "channel_h" THEN e ELSE e - 1

\* C17, amended: with the initial channel 17 calibrated at RX code
\* (23,15,10), channel_cal_init_remaining_sweeps keeps that code for RX of
\* channel 17 and sets up, for every other channel and for TX of channel 17,
\* a sweep around the estimate made from the neighbour's stored code, the
\* stored code being the start of that sweep with fine code 0: the
\* discovered fine code is not kept.  RX of channel 18 sweeps mid
\* [15+B-1, 15+B+1] and RX of channel 16 mid [15-B-1, 15-B+1], B being
\* TUNING_NUM_MID_CODES_BETWEEN_CHANNELS, and TX of channel 17 mid [13, 15];
\* their stored codes are (23,15+B,0), (23,15-B,0) and (23,14,0) in the
\* channel.h build (B = 6) and (23,15+B-1,0), (23,15-B-1,0) and (23,13,0) in
\* the part_004 build (B = 5).
C17_NeighbourSweepsSeeded ==
    RemainingInitialisedAt231510 =>
        LET infos == g_channel_cal_channel_infos
            B == TUNING_NUM_MID_CODES_BETWEEN_CHANNELS
        IN  /\ infos[17].rx.tuning_code = TuningCode(23, 15, 10)
            /\ infos[17].rx.calibrated
            /\ infos[18].rx.sweep_config.mid =
                   SweepRange(15 + B - 1, 15 + B + 1)
            /\ infos[18].rx.tuning_code =
                   TuningCode(23, SweepStartMid(15 + B), 0)
            /\ infos[16].rx.sweep_config.mid =
                   SweepRange(15 - B - 1, 15 - B + 1)
            /\ infos[16].rx.tuning_code =
                   TuningCode(23, SweepStartMid(15 - B), 0)
            /\ infos[17].tx.sweep_config.mid = SweepRange(13, 15)
            /\ infos[17].tx.tuning_code =
                   TuningCode(23, SweepStartMid(14), 0)
            /\ \A c \in Channels : \A mode \in {"rx", "tx"} :
                   (c # CHANNEL_CAL_INITIAL_CHANNEL \/ mode = "tx") =>
                       /\ tuning_validate_sweep_config(
                              infos[c][mode].sweep_config)
                       /\ ~infos[c][mode].calibrated
                       /\ infos[c][mode].tuning_code =
                              tuning_init_for_sweep(
                                  infos[c][mode].sweep_config)
                       /\ infos[c][mode].tuning_code.fine = 0

\* Scenario S2 has run: every channel has a valid sweep, and RX of channel
\* 18 starts at fine code 0.
C17_Witness ==
    /\ RemainingInitialisedAt231510
    /\ g_channel_cal_channel_infos[17].rx.tuning_code = TuningCode(23, 15, 10)
    /\ g_channel_cal_channel_infos[18].rx.tuning_code.fine = 0
    /\ g_channel_cal_channel_infos[18].rx.tuning_code.coarse = 23
    /\ g_channel_cal_channel_infos[MAX_CHANNEL].tx.tuning_code.coarse > 23

----------------------------------------------------------------------------
(* Properties of the tuning feedback. *)

AverageOfThree(info, estimate) ==
    (info.if_estimates[0] + info.if_estimates[1] + estimate) \div 3

StreamWindow == FeedbackWindow(stream.channel)

StreamCode == g_channel_rx_tuning_codes[stream.channel]

\* Every estimate of the stream is within MAX_IF_OFFSET of the nominal count.
InBandStream ==
    /\ stream.estimates # {}
    /\ \A e \in stream.estimates :
           /\ e >= TUNING_FEEDBACK_NOMINAL_IF_COUNT
                       - TUNING_FEEDBACK_MAX_IF_OFFSET
           /\ e <= TUNING_FEEDBACK_NOMINAL_IF_COUNT
                       + TUNING_FEEDBACK_MAX_IF_OFFSET

\* C19: while every IF estimate fed to a channel is in [475, 525] (all 500,
\* or any mix of 475 and 525), whatever the length of the stream, the RX
\* code of the channel stays the one it started with and the window is
\* never reset: it holds every estimate fed, up to the ten of a full array.
C19_InBandStreamChangesNothing ==
    InBandStream =>
        /\ StreamCode = stream.start_code
        /\ tuning_feedback_num_if_estimates(StreamWindow) =
               IF stream.num_samples
                      < TUNING_FEEDBACK_NUM_IF_ESTIMATES_TO_AVERAGE
               THEN stream.num_samples
               ELSE TUNING_FEEDBACK_NUM_IF_ESTIMATES_TO_AVERAGE
        /\ StreamWindow.if_estimate_index =
               stream.num_samples
                   % TUNING_FEEDBACK_NUM_IF_ESTIMATES_TO_AVERAGE
        /\ \A i \in 0..(tuning_feedback_num_if_estimates(StreamWindow) - 1) :
               StreamWindow.if_estimates[i] \in stream.estimates

\* A stream mixing 475 and 525 has filled the array and started to overwrite
\* it.
C19_Witness ==
    /\ InBandStream
    /\ stream.num_samples > TUNING_FEEDBACK_NUM_IF_ESTIMATES_TO_AVERAGE
    /\ StreamWindow.if_estimates_full_array
    /\ StreamWindow.if_estimates[0] # StreamWindow.if_estimates[1]
    /\ StreamWindow.if_estimates[0] # TUNING_FEEDBACK_NOMINAL_IF_COUNT

\* Every estimate of the stream is NOMINAL + MAX_OFFSET + 1.
HighStream ==
    stream.estimates =
        {TUNING_FEEDBACK_NOMINAL_IF_COUNT + TUNING_FEEDBACK_MAX_IF_OFFSET + 1}

\* The code after n steps of the feedback for an IF estimate too high.
RECURSIVE FeedbackIncrements(_, _)
FeedbackIncrements(tc, n) ==
    IF n = 0 THEN tc ELSE FeedbackIncrement(FeedbackIncrements(tc, n - 1))

\* C20: with every IF estimate fed to a channel equal to 526, from an empty
\* window, the RX code has been stepped once for every three samples fed
\* (at samples 3, 6, 9, ...), each step changing the code, and never on the
\* first or second sample after a step; the window is empty right after
\* each step and holds the one or two samples fed since otherwise.
C20_HighStreamStepsEveryThird ==
    HighStream =>
        LET steps == stream.num_samples
                         \div TUNING_FEEDBACK_MIN_NUM_IF_ESTIMATES_TO_AVERAGE
        IN  /\ StreamCode = FeedbackIncrements(stream.start_code, steps)
            /\ steps > 0 =>
                   StreamCode # FeedbackIncrements(stream.start_code,
                                                   steps - 1)
            /\ ~StreamWindow.if_estimates_full_array
            /\ tuning_feedback_num_if_estimates(StreamWindow) =
                   stream.num_samples
                       % TUNING_FEEDBACK_MIN_NUM_IF_ESTIMATES_TO_AVERAGE

\* The ninth sample of a stream of 526 has just made the third step.
C20_Witness ==
    /\ HighStream
    /\ stream.num_samples = 9
    /\ tuning_feedback_num_if_estimates(StreamWindow) = 0
    /\ StreamCode = FeedbackIncrements(stream.start_code, 3)
    /\ StreamCode # stream.start_code

\* Every estimate of the stream is above NOMINAL + MAX_OFFSET.
TooHighStream ==
    /\ stream.estimates # {}
    /\ \A e \in stream.estimates :
           e > TUNING_FEEDBACK_NOMINAL_IF_COUNT + TUNING_FEEDBACK_MAX_IF_OFFSET

\* Every estimate of the stream is below NOMINAL - MAX_OFFSET.
TooLowStream ==
    /\ stream.estimates # {}
    /\ \A e \in stream.estimates :
           e < TUNING_FEEDBACK_NOMINAL_IF_COUNT - TUNING_FEEDBACK_MAX_IF_OFFSET

\* The third sample of the stream has just been fed.
FirstCorrection ==
    stream.num_samples = TUNING_FEEDBACK_MIN_NUM_IF_ESTIMATES_TO_AVERAGE

\* Scenario S3: estimates of 530 fed to a channel whose RX code is (20,15,10).
ScenarioS3 ==
    /\ stream.estimates = {530}
    /\ stream.start_code = TuningCode(20, 15, 10)

\* C21 as stated: when the window average exceeds NOMINAL + MAX_OFFSET the
\* feedback applies decrement_fine(1) to the RX code of the channel, and
\* when it is below NOMINAL - MAX_OFFSET it applies increment_fine(1); in
\* scenario S3 the first correction, at sample 3, gives (20,15,9).
C21_HighDecrementsLowIncrements ==
    FirstCorrection =>
        /\ TooHighStream =>
               StreamCode = tuning_decrement_fine_codes(stream.start_code, 1)
        /\ TooLowStream =>
               StreamCode = tuning_increment_fine_codes(stream.start_code, 1)
        /\ ScenarioS3 => StreamCode = TuningCode(20, 15, 9)

\* C21, amended: when the window average exceeds NOMINAL + MAX_OFFSET the
\* feedback steps the RX code of the channel up, by
\* tuning_increment_fine_codes(1) in channel_cal.c and by
\* tuning_increment_code in tuning_feedback.c, and when it is below
\* NOMINAL - MAX_OFFSET it steps the code down, by
\* tuning_decrement_fine_codes(1) and tuning_decrement_code; in scenario S3
\* the first correction, at sample 3, gives (20,15,11).
C21_HighIncrementsLowDecrements ==
    FirstCorrection =>
        /\ TooHighStream =>
               StreamCode =
                   IF build = "tuning_c"
                   THEN tuning_increment_code(stream.start_code)
                   ELSE tuning_increment_fine_codes(stream.start_code, 1)
        /\ TooLowStream =>
               StreamCode =
                   IF build = "tuning_c"
                   THEN tuning_decrement_code(stream.start_code)
                   ELSE tuning_decrement_fine_codes(stream.start_code, 1)
        /\ ScenarioS3 => StreamCode = TuningCode(20, 15, 11)

\* Scenario S3 has made its first correction.
C21_Witness ==
    /\ ScenarioS3
    /\ FirstCorrection
    /\ StreamCode = TuningCode(20, 15, 11)
    /\ tuning_feedback_num_if_estimates(StreamWindow) = 0

\* The slots of the window that tuning_feedback_average_if_estimates sums.
ContributingSlots(info) == 0..(tuning_feedback_num_if_estimates(info) - 1)

\* C22: a zero IF estimate is never averaged in.  A call of
\* tuning_feedback_adjust_rx with estimate 0 leaves the windows (contents,
\* index, full flag) and every tuning code as they are; a call with another
\* estimate writes it at the index of the window, and then either keeps
\* the window or resets it; and after every call each slot that contributes
\* to the average holds a non-zero estimate of the stream.
C22_ZeroEstimateIgnored ==
    [][LET info == StreamWindow
           written == tuning_feedback_write_if_estimate(info, if_estimate')
       IN  /\ if_estimate' = 0 =>
                  /\ g_tuning_feedback_channel_infos' =
                         g_tuning_feedback_channel_infos
                  /\ g_tuning_feedback_if_estimates' =
                         g_tuning_feedback_if_estimates
                  /\ channel_vars' = channel_vars
                  /\ cal_globals' = cal_globals
           /\ if_estimate' # 0 =>
                  \/ StreamWindow' = written
                  \/ StreamWindow' =
                         tuning_feedback_reset_if_estimates(written)
           /\ \A i \in ContributingSlots(StreamWindow') :
                  /\ StreamWindow'.if_estimates[i] # 0
                  /\ StreamWindow'.if_estimates[i] \in stream.estimates
      ]_vars

\* A zero estimate has just been fed to a full window.
C22_Witness ==
    /\ if_estimate = 0
    /\ 0 \in stream.estimates
    /\ stream.num_samples > TUNING_FEEDBACK_NUM_IF_ESTIMATES_TO_AVERAGE
    /\ StreamWindow.if_estimates_full_array

\* C23 as stated: after channel_cal_rx_success(c) marks channel c
\* calibrated, the window of IF estimates of channel c is empty.
C23_WindowEmptyAfterCalibration ==
    [][LET c == last_call'.channel
       IN  (/\ last_call'.name = "rx_success"
            /\ ~g_channel_cal_channel_infos[c].rx.calibrated
            /\ g_channel_cal_channel_infos'[c].rx.calibrated)
               => tuning_feedback_num_if_estimates(
                      g_tuning_feedback_channel_infos'[c]) = 0
      ]_vars

\* C23, amended: channel_cal_rx_success(c) does not touch the tuning
\* feedback: the windows of IF estimates, of c and of every other channel,
\* and the registry are after the call what they were before it.  A window
\* is emptied only by the correction of tuning_feedback_adjust_rx, so
\* estimates fed before channel c is marked calibrated stay in its window
\* and count towards the first correction after the calibration.
C23_RxSuccessKeepsWindows ==
    [][last_call'.name = "rx_success" =>
         /\ g_tuning_feedback_channel_infos' = g_tuning_feedback_channel_infos
         /\ g_tuning_feedback_if_estimates' = g_tuning_feedback_if_estimates
         /\ channel_vars' = channel_vars
      ]_vars

\* A channel has just been marked calibrated with two estimates in its
\* window.
C23_Witness ==
    /\ last_call.name = "rx_success"
    /\ g_channel_cal_channel_infos[last_call.channel].rx.calibrated
    /\ g_channel_cal_num_channels_rx_calibrated = 1
    /\ tuning_feedback_num_if_estimates(
           g_tuning_feedback_channel_infos[last_call.channel]) = 2

\* C39: tuning_feedback_adjust_rx(c, x) reads and writes the IF window and
\* the RX code of channel c only: the window that the feedback uses for any
\* other channel and the RX code of any other channel are the same after
\* the call as before it, so that the corrections of a channel depend on
\* the estimates reported for that channel alone.
C39_AdjustRxTouchesOwnChannelOnly ==
    [][(last_call'.name = "adjust_rx")
       => \A d \in FeedbackChannels \ {last_call'.channel} :
              /\ FeedbackWindow(d)' = FeedbackWindow(d)
              /\ g_channel_rx_tuning_codes'[d] = g_channel_rx_tuning_codes[d]
      ]_vars

\* What holds of the feedback at the end of channel_cal.c, which keeps a
\* window per channel.
C39_PerChannelWindowsIndependent ==
    [][(build # "tuning_c" /\ last_call'.name = "adjust_rx")
       => \A d \in Channels \ {last_call'.channel} :
              /\ g_tuning_feedback_channel_infos'[d] =
                     g_tuning_feedback_channel_infos[d]
              /\ g_channel_rx_tuning_codes'[d] = g_channel_rx_tuning_codes[d]
      ]_vars

\* With tuning_feedback.c, a correction is applied to a channel for which a
\* single estimate has been reported.
C39_CorrectionNeedsOwnEstimates ==
    [][(/\ last_call'.name = "adjust_rx"
        /\ g_channel_rx_tuning_codes'[last_call'.channel] #
               g_channel_rx_tuning_codes[last_call'.channel])
       => last_call.name = "adjust_rx" /\ last_call.channel = last_call'.channel
      ]_vars

\* C40: in tuning.c, tuning_decrement_multiple_codes(code, n) moves the
\* code back by n codes: for n in 0..31 its result is that of n successive
\* calls of tuning_decrement_code, and called after
\* tuning_increment_multiple_codes(code, n) it gives the code back when the
\* increment did not pass (31,31,31).
C40_DecrementMultipleMovesBackByN ==
    /\ (applied = <<"decrement_multiple">>)
          => tuning_code = DecrementCodeTimes(input, num_codes)
    /\ (/\ applied = <<"increment_multiple", "decrement_multiple">>
        /\ CodeIndex(input) + num_codes
              <= CodeIndex(TuningCode(TUNING_MAX_CODE, TUNING_MAX_CODE,
                                      TUNING_MAX_CODE)))
          => tuning_code = input

\* What the code does: one code back whatever num_codes is, so that an
\* increment by n followed by the decrement by n leaves the code n - 1
\* codes ahead (the increment of 0 codes: one code behind, where there is
\* one).
C40_DecrementMultipleStepsOnce ==
    /\ (applied = <<"decrement_multiple">>)
          => tuning_code = tuning_decrement_code(input)
    /\ (/\ applied = <<"increment_multiple", "decrement_multiple">>
        /\ CodeIndex(input) + num_codes
              <= CodeIndex(TuningCode(TUNING_MAX_CODE, TUNING_MAX_CODE,
                                      TUNING_MAX_CODE))
        /\ CodeIndex(input) > 0)
          => CodeIndex(tuning_code) = CodeIndex(input) + num_codes - 1

\* The two parts of the claim, each alone.
C40_EqualsSuccessiveDecrements ==
    (applied = <<"decrement_multiple">>)
        => tuning_code = DecrementCodeTimes(input, num_codes)

C40_UndoesIncrementMultiple ==
    (/\ applied = <<"increment_multiple", "decrement_multiple">>
     /\ CodeIndex(input) + num_codes
           <= CodeIndex(TuningCode(TUNING_MAX_CODE, TUNING_MAX_CODE,
                                   TUNING_MAX_CODE)))
        => tuning_code = input

----------------------------------------------------------------------------
(* Properties of the channel registry. *)

RegistryModes == {CHANNEL_MODE_TX, CHANNEL_MODE_RX}

\* The code a registry r holds for a channel and a mode of RegistryModes.
CodeIn(r, channel, mode) ==
    IF mode = CHANNEL_MODE_TX THEN r.tx[channel] ELSE r.rx[channel]

\* C24: after channel_set_tuning_code(c, mode, code) with c in 11..26 and
\* mode TX or RX, channel_get_tuning_code(c, mode) returns exactly code
\* until the next set of the same (c, mode): every entry of the registry
\* holds the code last set for it, a get of it leaves that code in
\* *tuning_code, and a set changes no other entry.  A set with an unknown
\* mode changes no entry and a get with an unknown mode leaves *tuning_code
\* as it was; no get changes the registry.
C24_RegistryKeepsLastSet ==
    [][LET call == channel_history'
           set == call.name = "set_tuning_code"
           get == call.name = "get_tuning_code"
       IN  /\ \A c \in Channels : \A mode \in RegistryModes :
                  /\ CodeIn(Registry', c, mode) =
                         CodeIn(call.last_set, c, mode)
                  /\ ~(set /\ call.channel = c /\ call.mode = mode) =>
                         CodeIn(Registry', c, mode) =
                             CodeIn(Registry, c, mode)
           /\ (set /\ call.mode \in RegistryModes) =>
                  CodeIn(Registry', call.channel, call.mode) = call.code
           /\ (get /\ call.mode \in RegistryModes) =>
                  call.code = CodeIn(call.last_set, call.channel, call.mode)
           /\ (get /\ call.mode \notin RegistryModes) =>
                  call.code = call.out
      ]_vars

\* A get has returned a code set earlier, other entries having been set
\* since, while *tuning_code held another code.
C24_Witness ==
    /\ channel_history.name = "get_tuning_code"
    /\ channel_history.channel = MAX_CHANNEL
    /\ channel_history.mode = CHANNEL_MODE_RX
    /\ channel_history.code = TuningCode(20, 15, 10)
    /\ channel_history.out = TuningCode(31, 31, 31)
    /\ g_channel_tx_tuning_codes[MAX_CHANNEL] = TuningCode(31, 31, 31)
    /\ g_channel_rx_tuning_codes[MIN_CHANNEL] = TuningCode(31, 31, 31)

----------------------------------------------------------------------------
(* Properties of the initialisation of the sweeps. *)

\* The fields of every channel in either mode.
ChannelStates(infos) ==
    [c \in Channels |->
        [mode \in {"rx", "tx"} |->
            [tuning_code |-> infos[c][mode].tuning_code,
             sweep_config |-> infos[c][mode].sweep_config,
             num_failures |-> infos[c][mode].num_failures,
             calibrated |-> infos[c][mode].calibrated]]]

\* C25: whenever channel_cal_init_remaining_sweeps finds that
\* tuning_validate_sweep_config fails, it returns FALSE and no state is
\* set: the tuning code, sweep configuration, failure count and calibrated
\* flag of every channel are as before the call.  The code violates it: the
\* channel mode information is zeroed and given its sweep configuration
\* before the validation, and the channels initialised before the failing
\* one keep their new sweeps.
C25_FailedInitSetsNoState ==
    [][(/\ last_call'.name = "init_remaining_sweeps"
        /\ ~channel_cal_init_remaining_sweeps_returns(Globals))
           => ChannelStates(g_channel_cal_channel_infos') =
                  ChannelStates(g_channel_cal_channel_infos)
      ]_vars

\* C38: a failure reported for a channel and mode that is calibrated leaves
\* the tuning code, the sweep configuration and the failure count of that
\* channel and mode as they were, and an RX success on a channel whose RX or
\* TX code is calibrated leaves the TX information of the channel as it was.
C38_CalibratedCodeFrozen ==
    [][LET c == last_call'.channel
           before == g_channel_cal_channel_infos[c]
           after == g_channel_cal_channel_infos'[c]
       IN  /\ (last_call'.name = "rx_failure" /\ before.rx.calibrated)
                  => after.rx = before.rx
           /\ (last_call'.name = "tx_failure" /\ before.tx.calibrated)
                  => after.tx = before.tx
           /\ (/\ last_call'.name = "rx_success"
               /\ before.rx.calibrated \/ before.tx.calibrated)
                  => after.tx = before.tx]_vars

\* The initial RX sweep was initialised and ended by a frame, and a failure
\* has been reported since for the calibrated RX code of the initial
\* channel.
C38_Witness ==
    /\ last_call = [name |-> "rx_failure",
                    channel |-> CHANNEL_CAL_INITIAL_CHANNEL]
    /\ InitialRx.calibrated
    /\ InitialRx.num_failures = 0
    /\ InitialRx.sweep_config.coarse.start >= 22
    /\ InitialRx.tuning_code = tuning_init_for_sweep(InitialRx.sweep_config)
    /\ g_channel_cal_initial_rx_sweep_finished

\* The code lies inside the box of the sweep configuration.
InSweepBox(tc, cfg) ==
    /\ cfg.coarse.start <= tc.coarse /\ tc.coarse <= cfg.coarse.end
    /\ cfg.mid.start <= tc.mid /\ tc.mid <= cfg.mid.end
    /\ cfg.fine.start <= tc.fine /\ tc.fine <= cfg.fine.end

----------------------------------------------------------------------------
(* Properties of the peer coordinator. *)

\* The indices of the recorded list at which a maximal run of entries with
\* identical coarse and mid codes starts.
RunStarts(recorded) ==
    {k \in 1..Len(recorded) :
        \/ k = 1
        \/ recorded[k].coarse # recorded[k - 1].coarse
        \/ recorded[k].mid # recorded[k - 1].mid}

\* The index at which the run that starts at index k ends.
RunEnd(recorded, k) ==
    CHOOSE m \in k..Len(recorded) :
        /\ \A x \in k..m : /\ recorded[x].coarse = recorded[k].coarse
                           /\ recorded[x].mid = recorded[k].mid
        /\ \/ m = Len(recorded)
           \/ recorded[m + 1].coarse # recorded[k].coarse
           \/ recorded[m + 1].mid # recorded[k].mid

\* The start of run number r of the recorded list, counted from 0.
NthRunStart(recorded, r) ==
    CHOOSE k \in RunStarts(recorded) :
        Cardinality({x \in RunStarts(recorded) : x < k}) = r

\* The code the rule gives for the run that starts at index k.
RunAverage(recorded, k) ==
    TuningCode(recorded[k].coarse, recorded[k].mid,
               (recorded[k].fine + recorded[RunEnd(recorded, k)].fine) \div 2)

\* C26: when the RX timeout expires in state RX_IDLE, the averaging writes
\* to the row of the current channel, in order, one code (coarse, mid,
\* (first.fine + last.fine) / 2) per maximal run of consecutive recorded
\* entries with identical (coarse, mid), for the first
\* CHANNEL_CAL_MAX_NUM_TX_TUNING_CODES_PER_CHANNEL runs at most, and writes
\* no other slot of the row.
C26_OneAveragedCodePerRun ==
    [][(/\ g_channel_cal_state = CHANNEL_CAL_STATE_RX_IDLE
        /\ peer_step'.name = "channel_cal_timer_callback")
       => LET recorded == g_channel_cal_scum_tx_tuning_codes_for_channel
              row == g_channel_cal_scum_tx_tuning_codes[g_channel_cal_channel]
          IN  g_channel_cal_scum_tx_tuning_codes'[g_channel_cal_channel] =
                  [j \in 0..(CHANNEL_CAL_MAX_NUM_TX_TUNING_CODES_PER_CHANNEL - 1)
                      |-> IF j < Cardinality(RunStarts(recorded))
                          THEN RunAverage(recorded, NthRunStart(recorded, j))
                          ELSE row[j]]]_vars

\* The recorded list [(22,15,5),(22,15,9),(22,16,1),(22,16,3),(22,16,11)] was
\* averaged on the last channel of step 1 and gave [(22,15,7),(22,16,6)].
C26_Witness ==
    /\ peer_step.name = "channel_cal_timer_callback"
    /\ g_channel_cal_state = CHANNEL_CAL_STATE_TX
    /\ g_channel_cal_scum_tx_tuning_codes_for_channel =
           <<TuningCode(22, 15, 5), TuningCode(22, 15, 9),
             TuningCode(22, 16, 1), TuningCode(22, 16, 3),
             TuningCode(22, 16, 11)>>
    /\ g_channel_cal_scum_tx_tuning_codes[CHANNEL_CAL_CHANNEL_END] =
           [ZeroPeerCodes EXCEPT ![0] = TuningCode(22, 15, 7),
                                 ![1] = TuningCode(22, 16, 6)]

C27_BufferDecidesChannelChange ==
    [][(/\ g_channel_cal_state = CHANNEL_CAL_STATE_RX_ACK_RECEIVED
        /\ peer_step'.name = "mote_main")
       => LET ack == g_channel_cal_rx_packet
          IN  IF /\ ack.channel = g_channel_cal_channel
                 /\ ack.command = CHANNEL_CAL_COMMAND_CHANGE_CHANNEL
              THEN /\ g_channel_cal_channel' = g_channel_cal_channel + 1
                   /\ g_channel_cal_state' =
                          IF g_channel_cal_channel' > CHANNEL_CAL_CHANNEL_END
                          THEN CHANNEL_CAL_STATE_SMART_STAKE_RX
                          ELSE CHANNEL_CAL_STATE_RX_ACK
              ELSE /\ g_channel_cal_channel' = g_channel_cal_channel
                   /\ g_channel_cal_state' = CHANNEL_CAL_STATE_RX_ACK_IDLE]_vars

\* The (step, channel) pairs of the protocol in the order of the header
\* comment: step 1 on each channel of the calibration range, then step 2 on
\* each channel, then the SmartStake reception (entered with the channel one
\* past the range, then moved to SMART_STAKE_DEMO_CHANNEL).
CalibrationChannels ==
    [i \in 1..(CHANNEL_CAL_CHANNEL_END - CHANNEL_CAL_CHANNEL_START + 1) |->
        CHANNEL_CAL_CHANNEL_START + i - 1]

ProtocolOrder ==
    [i \in DOMAIN CalibrationChannels |->
        [step |-> "step 1", channel |-> CalibrationChannels[i]]]
    \o [i \in DOMAIN CalibrationChannels |->
        [step |-> "step 2", channel |-> CalibrationChannels[i]]]
    \o <<[step |-> "SmartStake", channel |-> CHANNEL_CAL_CHANNEL_END + 1],
         [step |-> "SmartStake", channel |-> SMART_STAKE_DEMO_CHANNEL]>>

\* C30: from mote_main on, the coordinator goes through the protocol in
\* order: step 1 on the channels CHANNEL_CAL_CHANNEL_START to
\* CHANNEL_CAL_CHANNEL_END ascending, then step 2 from
\* CHANNEL_CAL_CHANNEL_START on, and the SmartStake reception only after
\* step 2 has advanced past CHANNEL_CAL_CHANNEL_END.
C30_ProtocolInOrder ==
    /\ Len(protocol) <= Len(ProtocolOrder)
    /\ \A i \in 1..Len(protocol) : protocol[i] = ProtocolOrder[i]

C31_ExpiryInAckIdleLeadsToTx ==
    [][(/\ g_channel_cal_state = CHANNEL_CAL_STATE_RX_ACK_IDLE
        /\ peer_step'.name = "channel_cal_timer_callback")
       => g_channel_cal_state' = CHANNEL_CAL_STATE_TX]_vars

C33_RecordsBelowCapacity ==
    [][(/\ g_channel_cal_state = CHANNEL_CAL_STATE_RX_RECEIVED
        /\ peer_step'.name = "mote_main"
        /\ g_channel_cal_scum_tx_num_received_tuning_codes_for_channel
               < CHANNEL_CAL_MAX_NUM_RECORDED_TX_TUNING_CODES)
       => LET code == g_channel_cal_rx_packet.tuning_code
              num == g_channel_cal_scum_tx_num_received_tuning_codes_for_channel
          IN  IF code = TuningCode(0, 0, 0)
              THEN UNCHANGED
                       <<g_channel_cal_scum_tx_tuning_codes_for_channel,
                         g_channel_cal_scum_tx_num_received_tuning_codes_for_channel>>
              ELSE /\ g_channel_cal_scum_tx_num_received_tuning_codes_for_channel'
                          = num + 1
                   /\ g_channel_cal_scum_tx_tuning_codes_for_channel'[num + 1]
                          = code]_vars

C34_LongTimeoutAboveThreshold ==
    [][(/\ g_channel_cal_state = CHANNEL_CAL_STATE_RX_RECEIVED
        /\ peer_step'.name = "mote_main")
       => sctimer' =
              IF g_channel_cal_rx_packet.tuning_code.mid >
                     CHANNEL_CAL_RX_MID_CODE_THRESHOLD
              THEN CHANNEL_CAL_RX_LONG_TIMEOUT
              ELSE CHANNEL_CAL_RX_TIMEOUT]_vars

\* The statics of the protocol that a dropped frame must leave alone.
PeerProgress ==
    <<g_channel_cal_state, g_channel_cal_channel,
      g_channel_cal_scum_tx_num_received_tuning_codes_for_channel,
      g_channel_cal_scum_tx_tuning_codes_for_channel>>

C35_CrcFailureOutsideTx ==
    [][\A frame \in PeerFrames :
           (/\ ~frame.crc
            /\ end_frame_cb = "channel_cal_end_frame_callback"
            /\ g_channel_cal_state # CHANNEL_CAL_STATE_TX
            /\ channel_cal_end_frame_callback(frame))
               => /\ UNCHANGED PeerProgress
                  /\ g_channel_cal_rx_packet' = frame.packet
                  /\ ~g_channel_cal_rx_packet_crc']_vars

\* The callbacks of the coordinator that run in interrupt context.
PeerEndFrameCallbacks ==
    {"channel_cal_end_frame_callback", "smart_stake_end_frame_callback"}

C36_MoteTimerKeepsRegistry ==
    [][(last_call'.name = "initial_rx_timer_cb")
       => /\ UNCHANGED <<g_channel_tx_tuning_codes, g_channel_rx_tuning_codes>>
          /\ \A c \in DOMAIN g_channel_cal_channel_infos :
                 c # CHANNEL_CAL_INITIAL_CHANNEL
                     => g_channel_cal_channel_infos'[c] =
                            g_channel_cal_channel_infos[c]]_vars

----------------------------------------------------------------------------
(* Properties of the radio app. *)

\* C28: every expiry of the timer (cb_timer) is eventually followed by the
\* handler of the timer flag transmitting a packet and setting the compare
\* again, in whatever state the expiry finds the app.
C28_TimerLeadsToTransmission ==
    (app_step = "cb_timer") ~> (app_step = "transmit")

\* C29: a flag set by cb_startFrame, cb_endFrame or cb_timer stays set in
\* app_vars.flags until the main loop has handled it and cleared it: no
\* clearing of another flag takes it away.
C29_NoFlagLost ==
    \A X \in app_pending : HasFlag(app_vars.flags, X)

====
